---- MODULE Spec2Model ----
(***************************************************************************)
(* Model of the hospital_journey tool of the Hospi-Copilot app             *)
(* (apps/hospi-copilot/server.ts): the step state machine, back            *)
(* navigation, the per-step side effects on the caller-carried state and   *)
(* the demo data generators; of the Hospi-Copilot widget                   *)
(* (widget/hospi-copilot-widget.ts): form validation and the calls its     *)
(* buttons send; and of the file upload utilities: validateUploadedFile    *)
(* and the file signature check.                                           *)
(*                                                                         *)
(* Conventions.  An optional value (a field that may be undefined) is a    *)
(* sequence of length 0 or 1: None or Some(v).  Free text that the code    *)
(* only stores and compares is a TLA+ string; text that the code builds or *)
(* scans character by character (identifiers, the admission reason) is a   *)
(* sequence of one-character strings.  A date is <<year, month, day>>.     *)
(* Math.random and the wall clock are inputs of the handler.               *)
(***************************************************************************)
EXTENDS Integers, Sequences, FiniteSets, TLC

VARIABLES
    clock,      \* the calendar date "new Date()" yields (UTC)
    called,     \* TRUE once hospital_journey has returned a result
    req,        \* arguments of the latest hospital_journey call
    resp,       \* what the latest hospital_journey call returned
    drawn,      \* the Math.random draws handed to the latest call
    prev,       \* Some(response and draws of the call before) when the latest
                \* call repeated that call's arguments, else None
    rejected,   \* Some(error) when the latest call failed schema validation
    backFrom,   \* step a run of chained goBack calls started from
    backRun,    \* number of goBack calls made in that run
    genState,   \* journey state handed to the insurance data generators
    genDraw,    \* the five Math.random draws handed to generateMemberNumber
    genData,    \* Some(what generateInsuranceData returned), None before
    shown,      \* widget: the tool result it rendered last (currentData)
    pending,    \* widget: hospital_journey calls sent and not yet answered
    validationError, \* widget: Some(message shown above the form) or None
    file,       \* upload: the FileUpload record under validation
    options,    \* upload: the FileValidationOptions in force
    validation, \* upload: Some(FileValidationResult) once validated
    filename,   \* sanitizer: the file name handed to sanitizeFilename
    sanitized,  \* sanitizer: Some(what sanitizeFilename returned)
    procArgs,   \* process_file: the arguments of the call
    procFault,  \* process_file: where an exception is raised, if anywhere
    procResult, \* process_file: Some(what the handler returned or threw)
    refreshInterval, \* dashboard: Some(id of the interval timer) or None
    isPaused,   \* dashboard: the isPaused flag
    timers,     \* dashboard: the interval timers that are active
    fetching,   \* dashboard: get_system_metrics calls in flight
    metricsShown, \* dashboard: the metrics displayed last
    currentFileState, \* file widget: Some(selected file) or None
    fileSelectedShown, \* file widget: the section with the button is visible
    processBtnDisabled, \* file widget: processBtn.disabled
    loadingShown, \* file widget: the loading indicator is visible
    processing, \* file widget: its process_file calls in flight
    resultShown, \* file widget: what the result area displays
    forwardFrom, \* step a run of chained forward calls started from
    forwardRun  \* number of forward calls made in that run

journeyVars == <<clock, called, req, resp, drawn, prev, rejected,
                 backFrom, backRun>>

generatorVars == <<genState, genDraw, genData>>

widgetVars == <<shown, pending, validationError>>

uploadVars == <<file, options, validation>>

filenameVars == <<filename, sanitized>>

processVars == <<procArgs, procFault, procResult>>

dashboardVars == <<refreshInterval, isPaused, timers, fetching, metricsShown>>

fileWidgetVars == <<currentFileState, fileSelectedShown,
                    processBtnDisabled, loadingShown,
                    processing, resultShown>>

forwardVars == <<forwardFrom, forwardRun>>

\* The file name sanitizer, the file processor, the dashboard widget, the
\* file widget and the runs of forward calls.
appVars == <<filenameVars, processVars, dashboardVars, fileWidgetVars,
             forwardVars>>

vars == <<journeyVars, generatorVars, widgetVars, uploadVars, appVars>>

\* What the hospital_journey server actions leave alone.
elsewhere == <<generatorVars, widgetVars, uploadVars, appVars>>

----------------------------------------------------------------------------
(* Bounds of the model *)

\* Extra sample points taken inside the range of one Math.random() draw.
MaxDraw == 1

\* Number of days the clock may advance during a run.
MaxDays == 1

\* Longest run of chained goBack calls that is followed.
MaxBackRun == 7

\* Longest run of chained forward calls that is followed.
MaxForwardRun == 8

\* Longest file name of the exhaustively enumerated short names.
MaxNameLen == 3

\* Most calls the widget may have in flight at once.
MaxPending == 1

\* Most process_file calls the file widget may have in flight at once.
MaxProcessing == 2

\* Most get_system_metrics calls the dashboard may have in flight at once.
MaxFetching == 3

----------------------------------------------------------------------------
(* Optional values and JavaScript truthiness *)

None == <<>>

Some(v) == <<v>>

Opt(S) == {None} \cup {Some(v) : v \in S}

IsSome(o) == o # None

\* o ?? d
OrElse(o, d) == IF IsSome(o) THEN o[1] ELSE d

\* "x || d" on an optional string: undefined and "" are falsy.
StrOr(o, d) == IF IsSome(o) /\ o[1] # "" THEN o[1] ELSE d

\* "x || d" on an optional character sequence.
TextOr(o, d) == IF IsSome(o) /\ o[1] # <<>> THEN o[1] ELSE d

\* "x || false" / "if (x)" on an optional boolean.
Truthy(o) == IsSome(o) /\ o[1] = TRUE

----------------------------------------------------------------------------
(* Text as character sequences *)

Digit(d) == CASE d = 0 -> "0" [] d = 1 -> "1" [] d = 2 -> "2" [] d = 3 -> "3"
              [] d = 4 -> "4" [] d = 5 -> "5" [] d = 6 -> "6" [] d = 7 -> "7"
              [] d = 8 -> "8" [] d = 9 -> "9"

\* String(n) / `${n}` for a non-negative integer.
RECURSIVE DecStr(_)
DecStr(n) == IF n < 10 THEN <<Digit(n)>>
             ELSE DecStr(n \div 10) \o <<Digit(n % 10)>>

\* s.padStart(w, '0')
RECURSIVE padStart(_, _)
padStart(s, w) == IF Len(s) >= w THEN s ELSE padStart(<<"0">> \o s, w)

LowerOf(c) ==
    CASE c = "A" -> "a" [] c = "B" -> "b" [] c = "C" -> "c" [] c = "D" -> "d"
      [] c = "E" -> "e" [] c = "F" -> "f" [] c = "G" -> "g" [] c = "H" -> "h"
      [] c = "I" -> "i" [] c = "J" -> "j" [] c = "K" -> "k" [] c = "L" -> "l"
      [] c = "M" -> "m" [] c = "N" -> "n" [] c = "O" -> "o" [] c = "P" -> "p"
      [] c = "Q" -> "q" [] c = "R" -> "r" [] c = "S" -> "s" [] c = "T" -> "t"
      [] c = "U" -> "u" [] c = "V" -> "v" [] c = "W" -> "w" [] c = "X" -> "x"
      [] c = "Y" -> "y" [] c = "Z" -> "z" [] OTHER -> c

\* s.toLowerCase()
toLowerCase(s) == [i \in 1..Len(s) |-> LowerOf(s[i])]

\* s.includes(k)
includes(s, k) ==
    \E i \in 0..(Len(s) - Len(k)) : SubSeq(s, i + 1, i + Len(k)) = k

KwSurgery == <<"s","u","r","g","e","r","y">>

KwOperation == <<"o","p","e","r","a","t","i","o","n">>

KwChildbirth == <<"c","h","i","l","d","b","i","r","t","h">>

----------------------------------------------------------------------------
(* Calendar: what Date.setDate / setFullYear / toISOString compute *)

IsLeap(y) == (y % 4 = 0 /\ y % 100 # 0) \/ y % 400 = 0

DaysInMonth(y, m) ==
    CASE m \in {1, 3, 5, 7, 8, 10, 12} -> 31
      [] m \in {4, 6, 9, 11} -> 30
      [] OTHER -> IF IsLeap(y) THEN 29 ELSE 28

NextDay(d) ==
    IF d[3] < DaysInMonth(d[1], d[2]) THEN <<d[1], d[2], d[3] + 1>>
    ELSE IF d[2] < 12 THEN <<d[1], d[2] + 1, 1>>
    ELSE <<d[1] + 1, 1, 1>>

\* date.setDate(date.getDate() + n)
RECURSIVE AddDays(_, _)
AddDays(d, n) == IF n = 0 THEN d ELSE AddDays(NextDay(d), n - 1)

\* date.setFullYear(date.getFullYear() + 1): 29 February overflows to 1 March
AddYear(d) ==
    IF d[3] <= DaysInMonth(d[1] + 1, d[2]) THEN <<d[1] + 1, d[2], d[3]>>
    ELSE <<d[1] + 1, d[2] + 1, 1>>

\* date.toISOString().split('T')[0]
IsoDate(d) == padStart(DecStr(d[1]), 4) \o <<"-">> \o padStart(DecStr(d[2]), 2)
              \o <<"-">> \o padStart(DecStr(d[3]), 2)

getDefaultAdmissionDate(now) == IsoDate(AddDays(now, 7))

getMinAdmissionDate(now) == IsoDate(now)

getMaxAdmissionDate(now) == IsoDate(AddYear(now))

----------------------------------------------------------------------------
(* Static data of the server *)

Steps == {"start", "select_member", "select_hospital", "admission_details",
          "room_type", "review", "submitted"}

Languages == {"en", "nl", "fr"}

RoomTypes == {"multi", "single", "day"}

BELGIAN_HOSPITALS == <<
    [id |-> "uz-leuven", name |-> "UZ Leuven", city |-> "Leuven"],
    [id |-> "uz-gent", name |-> "UZ Gent", city |-> "Gent"],
    [id |-> "uz-brussel", name |-> "UZ Brussel", city |-> "Brussel"],
    [id |-> "az-sint-jan", name |-> "AZ Sint-Jan Brugge-Oostende AV", city |-> "Brugge"],
    [id |-> "az-groeninge", name |-> "AZ Groeninge", city |-> "Kortrijk"],
    [id |-> "uz-antwerpen", name |-> "UZ Antwerpen", city |-> "Antwerpen"],
    [id |-> "az-sint-lucas", name |-> "AZ Sint-Lucas", city |-> "Gent"],
    [id |-> "az-monica", name |-> "AZ Monica", city |-> "Antwerpen"],
    [id |-> "chu-liege", name |-> "CHU de Liège", city |-> "Liège"],
    [id |-> "cliniques-saint-luc", name |-> "Cliniques universitaires Saint-Luc", city |-> "Bruxelles"],
    [id |-> "hopital-erasme", name |-> "Hôpital Erasme", city |-> "Bruxelles"],
    [id |-> "chu-charleroi", name |-> "CHU de Charleroi", city |-> "Charleroi"],
    [id |-> "az-klina", name |-> "AZ Klina", city |-> "Brasschaat"],
    [id |-> "jessa", name |-> "Jessa Ziekenhuis", city |-> "Hasselt"],
    [id |-> "az-turnhout", name |-> "AZ Turnhout", city |-> "Turnhout"] >>

SERVER_MESSAGES == [
    en |-> [
        start |-> "Widget shows step 1: patient selection form.",
        select_member |-> "Widget shows step 2: hospital selection with dropdown.",
        select_hospital |-> "Widget shows step 3: admission date and reason form.",
        admission_details |-> "Widget shows step 4: room type selection.",
        room_type |-> "Widget shows step 5: review all details before submission.",
        review |-> "Declaration submitted. Widget displays confirmation with declaration ID and insurance details.",
        submitted |-> "Declaration complete. All details visible in widget above."],
    nl |-> [
        start |-> "Widget toont stap 1: patiëntselectie formulier.",
        select_member |-> "Widget toont stap 2: ziekenhuis selectie met dropdown.",
        select_hospital |-> "Widget toont stap 3: opnamedatum en reden formulier.",
        admission_details |-> "Widget toont stap 4: kamertypeselectie.",
        room_type |-> "Widget toont stap 5: controleer alle details voor indiening.",
        review |-> "Aangifte ingediend. Widget toont bevestiging met aangiftenummer en verzekeringsgegevens.",
        submitted |-> "Aangifte voltooid. Alle details zichtbaar in widget hierboven."],
    fr |-> [
        start |-> "Le widget affiche l'étape 1 : formulaire de sélection du patient.",
        select_member |-> "Le widget affiche l'étape 2 : sélection de l'hôpital avec menu déroulant.",
        select_hospital |-> "Le widget affiche l'étape 3 : formulaire de date et motif d'admission.",
        admission_details |-> "Le widget affiche l'étape 4 : sélection du type de chambre.",
        room_type |-> "Le widget affiche l'étape 5 : vérifiez tous les détails avant soumission.",
        review |-> "Déclaration soumise. Le widget affiche la confirmation avec l'ID de déclaration et les détails d'assurance.",
        submitted |-> "Déclaration terminée. Tous les détails visibles dans le widget ci-dessus."]]

\* The journey state object of the input schema: every field optional.
StateFields == {"memberId", "memberName", "hospitalId", "hospitalName",
                "hospitalCity", "abroad", "admissionDate",
                "defaultAdmissionDate", "minAdmissionDate", "maxAdmissionDate",
                "reason", "accident", "roomType", "notes", "declarationId",
                "insuranceData"}

\* parsed.state ?? {}
EmptyState == [f \in StateFields |-> None]

----------------------------------------------------------------------------
(* Demo data generators *)

\* The five Math.floor(Math.random() * n) draws of generateMemberNumber, in
\* order: n = 40, 12, 28, 999, 99.
MemberDrawRanges == <<40, 12, 28, 999, 99>>

\* Mutation of generateMemberNumber: the month is not padded.
generateMemberNumber_unpaddedMonth(r) ==
    LET year  == r[1] + 60
        month == DecStr(r[2] + 1)
        day   == padStart(DecStr(r[3] + 1), 2)
        seq   == padStart(DecStr(r[4] + 1), 3)
        check == padStart(DecStr(r[5]), 2)
    IN  DecStr(year) \o <<".">> \o month \o <<".">> \o day \o <<"-">>
        \o seq \o <<".">> \o check

generateMemberNumber(r) ==
    LET year  == r[1] + 60
        month == padStart(DecStr(r[2] + 1), 2)
        day   == padStart(DecStr(r[3] + 1), 2)
        seq   == padStart(DecStr(r[4] + 1), 3)
        check == padStart(DecStr(r[5]), 2)
    IN  DecStr(year) \o <<".">> \o month \o <<".">> \o day \o <<"-">>
        \o seq \o <<".">> \o check

BaseCoveredItems == << "Medical and specialist fees", "Room and board",
                       "Medications and medical supplies",
                       "Diagnostic tests and imaging" >>

\* Mutation of generateThirdPartyPaymentInfo: the reduced tier is applied to
\* every room type but "multi".
generateThirdPartyPaymentInfo_notMulti(state) ==
    LET roomType   == StrOr(state.roomType, "multi")
        isAccident == Truthy(state.accident)
        single     == roomType # "multi"
        reason     == toLowerCase(TextOr(state.reason, <<>>))
    IN  [ coveragePercentage  |-> IF single THEN 75 ELSE 100,
          coverageDescription |->
              IF single
              THEN "Partial coverage (75%) - supplement for single room"
              ELSE "Full coverage (100%)",
          coveredItems |->
              BaseCoveredItems
              \o (IF isAccident THEN <<"Accident-related care">> ELSE <<>>)
              \o (IF roomType = "day" THEN <<"Day clinic procedures">> ELSE <<>>),
          estimatedCoPay |->
              IF single THEN "€50-150 per day (room supplement)" ELSE "€0",
          priorAuthRequired |->
              \/ includes(reason, KwSurgery)
              \/ includes(reason, KwOperation)
              \/ includes(reason, KwChildbirth) ]

\* Mutation of generateThirdPartyPaymentInfo: the reason is searched as
\* typed, without toLowerCase.
generateThirdPartyPaymentInfo_caseSensitive(state) ==
    LET roomType   == StrOr(state.roomType, "multi")
        isAccident == Truthy(state.accident)
        single     == roomType = "single"
        reason     == TextOr(state.reason, <<>>)
    IN  [ coveragePercentage  |-> IF single THEN 75 ELSE 100,
          coverageDescription |->
              IF single
              THEN "Partial coverage (75%) - supplement for single room"
              ELSE "Full coverage (100%)",
          coveredItems |->
              BaseCoveredItems
              \o (IF isAccident THEN <<"Accident-related care">> ELSE <<>>)
              \o (IF roomType = "day" THEN <<"Day clinic procedures">> ELSE <<>>),
          estimatedCoPay |->
              IF single THEN "€50-150 per day (room supplement)" ELSE "€0",
          priorAuthRequired |->
              \/ includes(reason, KwSurgery)
              \/ includes(reason, KwOperation)
              \/ includes(reason, KwChildbirth) ]

generateThirdPartyPaymentInfo(state) ==
    LET roomType   == StrOr(state.roomType, "multi")
        isAccident == Truthy(state.accident)
        single     == roomType = "single"
        reason     == toLowerCase(TextOr(state.reason, <<>>))
    IN  [ coveragePercentage  |-> IF single THEN 75 ELSE 100,
          coverageDescription |->
              IF single
              THEN "Partial coverage (75%) - supplement for single room"
              ELSE "Full coverage (100%)",
          coveredItems |->
              BaseCoveredItems
              \o (IF isAccident THEN <<"Accident-related care">> ELSE <<>>)
              \o (IF roomType = "day" THEN <<"Day clinic procedures">> ELSE <<>>),
          estimatedCoPay |->
              IF single THEN "€50-150 per day (room supplement)" ELSE "€0",
          priorAuthRequired |->
              \/ includes(reason, KwSurgery)
              \/ includes(reason, KwOperation)
              \/ includes(reason, KwChildbirth) ]

generateInsuranceData(state, r) ==
    [ memberNumber      |-> generateMemberNumber(r),
      policyType        |-> "Premium Health Insurance",
      validUntil        |-> "31/12/2026",
      thirdPartyPayment |-> generateThirdPartyPaymentInfo(state),
      additionalNotes   |->
          << "Please bring your eID card to the hospital",
             "Confirm your admission 48 hours in advance" >>
          \o (IF Truthy(state.accident)
              THEN <<"For accident-related admissions, a police report may be required">>
              ELSE <<>>) ]

----------------------------------------------------------------------------
(* The hospital_journey handler *)

\* Mutation of HospitalJourneyInput: the language defaults to "nl".
HospitalJourneyInput_defaultNl(args) ==
    [ step     |-> OrElse(args.step, "start"),
      language |-> OrElse(args.language, "nl"),
      state    |-> args.state,
      goBack   |-> args.goBack ]

\* HospitalJourneyInput.parse(args): step defaults to "start", language to
\* "en"; state and goBack stay optional.
HospitalJourneyInput(args) ==
    [ step     |-> OrElse(args.step, "start"),
      language |-> OrElse(args.language, "en"),
      state    |-> args.state,
      goBack   |-> args.goBack ]

\* Whether HospitalJourneyInput.parse(args) returns: z.enum admits only the
\* listed values for step and language, a missing value is admitted.  parse
\* throws a ZodError otherwise and the handler returns nothing.
parseSucceeds(args) ==
    /\ args.step \in Opt(Steps)
    /\ args.language \in Opt(Languages)

\* The message of the ZodError thrown for a language outside the enum.
ZodInvalidEnumValue == "Invalid enum value. Expected 'en' | 'nl' | 'fr'"

stepOrder == << "start", "select_member", "select_hospital",
                "admission_details", "room_type", "review", "submitted" >>

\* stepOrder.indexOf(step): 0-based, -1 when absent
indexOf(step) ==
    IF \E i \in 1..Len(stepOrder) : stepOrder[i] = step
    THEN (CHOOSE i \in 1..Len(stepOrder) : stepOrder[i] = step) - 1
    ELSE -1

\* Mutation of previousOf: the guard reads currentIndex > 1 and two steps are
\* taken back.
previousOf_twoBack(step) ==
    LET currentIndex == indexOf(step)
    IN  IF currentIndex > 1 THEN stepOrder[(currentIndex - 2) + 1] ELSE step

\* The goBack block: stepOrder[currentIndex - 1] when currentIndex > 0,
\* otherwise the step itself.
previousOf(step) ==
    LET currentIndex == indexOf(step)
    IN  IF currentIndex > 0 THEN stepOrder[(currentIndex - 1) + 1] ELSE step

\* Mutation of effectiveStep: goBack is ignored.
effectiveStep_ignoresBack(step, goBack) == step

\* The step the switch processes.
effectiveStep(step, goBack) ==
    IF Truthy(goBack) THEN previousOf(step) ELSE step

\* Mutation of nextOf: the room_type case jumps over review.
nextOf_skipsReview(step) ==
    CASE step = "start"             -> "select_member"
      [] step = "select_member"     -> "select_hospital"
      [] step = "select_hospital"   -> "admission_details"
      [] step = "admission_details" -> "room_type"
      [] step = "room_type"         -> "submitted"
      [] step = "review"            -> "submitted"
      [] step = "submitted"         -> "submitted"

\* Mutation of nextOf: the submitted case starts the journey over.
nextOf_submittedRestarts(step) ==
    CASE step = "start"             -> "select_member"
      [] step = "select_member"     -> "select_hospital"
      [] step = "select_hospital"   -> "admission_details"
      [] step = "admission_details" -> "room_type"
      [] step = "room_type"         -> "review"
      [] step = "review"            -> "submitted"
      [] step = "submitted"         -> "start"

\* nextStep as assigned by the switch.
nextOf(step) ==
    CASE step = "start"             -> "select_member"
      [] step = "select_member"     -> "select_hospital"
      [] step = "select_hospital"   -> "admission_details"
      [] step = "admission_details" -> "room_type"
      [] step = "room_type"         -> "review"
      [] step = "review"            -> "submitted"
      [] step = "submitted"         -> "submitted"

\* BELGIAN_HOSPITALS.find(h => h.id === id): None when nothing matches
findHospital(id) ==
    LET hits == {i \in 1..Len(BELGIAN_HOSPITALS) : BELGIAN_HOSPITALS[i].id = id}
    IN  IF hits = {} THEN None
        ELSE Some(BELGIAN_HOSPITALS[CHOOSE i \in hits : \A j \in hits : i <= j])

\* Mutation of selectHospitalCase: abroad is cleared for every id other
\* than "other", found in the catalog or not.
selectHospitalCase_alwaysBelgium(state) ==
    IF StrOr(state.hospitalId, "") # "" /\ state.hospitalId[1] # "other"
    THEN LET hospital == findHospital(state.hospitalId[1])
         IN  IF IsSome(hospital)
             THEN [state EXCEPT !.hospitalName = Some(hospital[1].name),
                                !.hospitalCity = Some(hospital[1].city),
                                !.abroad = Some(FALSE)]
             ELSE [state EXCEPT !.abroad = Some(FALSE)]
    ELSE state

\* case "select_hospital"
selectHospitalCase(state) ==
    IF StrOr(state.hospitalId, "") # "" /\ state.hospitalId[1] # "other"
    THEN LET hospital == findHospital(state.hospitalId[1])
         IN  IF IsSome(hospital)
             THEN [state EXCEPT !.hospitalName = Some(hospital[1].name),
                                !.hospitalCity = Some(hospital[1].city),
                                !.abroad = Some(FALSE)]
             ELSE state
    ELSE state

\* Mutation of admissionDetailsCase: the default date is also written to
\* admissionDate.
admissionDetailsCase_fillsAdmissionDate(state, now) ==
    [state EXCEPT !.admissionDate = Some(getDefaultAdmissionDate(now)),
                  !.defaultAdmissionDate = Some(getDefaultAdmissionDate(now)),
                  !.minAdmissionDate = Some(getMinAdmissionDate(now)),
                  !.maxAdmissionDate = Some(getMaxAdmissionDate(now))]

\* case "admission_details"
admissionDetailsCase(state, now) ==
    [state EXCEPT !.defaultAdmissionDate = Some(getDefaultAdmissionDate(now)),
                  !.minAdmissionDate = Some(getMinAdmissionDate(now)),
                  !.maxAdmissionDate = Some(getMaxAdmissionDate(now))]

\* Mutation of fakeId: the offset 100000 is not added.
fakeId_noOffset(draw) == <<"H", "S", "P", "-">> \o DecStr(draw)

\* `HSP-${Math.floor(Math.random() * 900000) + 100000}`
fakeId(draw) == <<"H", "S", "P", "-">> \o DecStr(draw + 100000)

\* Mutation of reviewCase: a declaration id already in the state is kept.
reviewCase_keepsId(state, rnd) ==
    LET withId == IF IsSome(state.declarationId) THEN state
                  ELSE [state EXCEPT !.declarationId = Some(fakeId(rnd.id))]
    IN  [withId EXCEPT
            !.insuranceData = Some(generateInsuranceData(withId, rnd.member))]

\* case "review": rnd.id and rnd.member are the Math.random draws
reviewCase(state, rnd) ==
    LET withId == [state EXCEPT !.declarationId = Some(fakeId(rnd.id))]
    IN  [withId EXCEPT
            !.insuranceData = Some(generateInsuranceData(withId, rnd.member))]

\* The state after the switch has processed step.
switchState(step, state, now, rnd) ==
    CASE step = "select_hospital"   -> selectHospitalCase(state)
      [] step = "admission_details" -> admissionDetailsCase(state, now)
      [] step = "review"            -> reviewCase(state, rnd)
      [] OTHER                      -> state

\* Mutation of hospital_journey: the catalog is returned only with the step
\* whose form shows it.
hospital_journey_listOnDemand(args, now, rnd) ==
    LET parsed   == HospitalJourneyInput(args)
        state    == OrElse(parsed.state, EmptyState)
        language == parsed.language
        messages == SERVER_MESSAGES[language]
        step     == effectiveStep(parsed.step, parsed.goBack)
    IN  [ structuredContent |->
              [ step         |-> nextOf(step),
                state        |-> switchState(step, state, now, rnd),
                language     |-> language,
                hospitalList |->
                    IF nextOf(step) = "select_hospital"
                    THEN BELGIAN_HOSPITALS ELSE <<>> ],
          content |-> << [type |-> "text", text |-> messages[step]] >> ]

hospital_journey(args, now, rnd) ==
    LET parsed   == HospitalJourneyInput(args)
        state    == OrElse(parsed.state, EmptyState)
        language == parsed.language
        messages == SERVER_MESSAGES[language]
        step     == effectiveStep(parsed.step, parsed.goBack)
    IN  [ structuredContent |->
              [ step         |-> nextOf(step),
                state        |-> switchState(step, state, now, rnd),
                language     |-> language,
                hospitalList |-> BELGIAN_HOSPITALS ],
          content |-> << [type |-> "text", text |-> messages[step]] >> ]

----------------------------------------------------------------------------
(* Inputs of the model *)

\* The k-th sample of Math.floor(Math.random() * n): both ends of the range
\* 0..n-1 and MaxDraw points in between.
SampleAt(n, k) ==
    IF k = 0 THEN 0
    ELSE IF k = MaxDraw + 1 THEN n - 1
    ELSE (k * n) \div (MaxDraw + 1)

SampleIndexes == 0..(MaxDraw + 1)

\* Outcomes of the draws one call can make: the declaration id draw and the
\* five draws of the member number, all taken at the same sample index.
RandomDraws ==
    { [ id     |-> SampleAt(900000, k),
        member |-> [i \in 1..5 |-> SampleAt(MemberDrawRanges[i], k)] ] :
      k \in SampleIndexes }

NoDraw == [id |-> 0, member |-> [i \in 1..5 |-> 0]]

\* The draws a call with these arguments consumes: only the review case
\* calls Math.random.
DrawsFor(args) ==
    LET parsed == HospitalJourneyInput(args)
    IN  IF effectiveStep(parsed.step, parsed.goBack) = "review"
        THEN RandomDraws
        ELSE { NoDraw }

\* Language codes a caller may send that the schema does not list.
UnsupportedLanguages == { "de", "EN" }

StartDates == { <<2027, 12, 24>>, <<2028, 2, 28>> }

ReasonSurgery == <<"K","n","e","e"," ","S","U","R","G","E","R","Y">>

ReasonCheckup == <<"c","h","e","c","k","u","p">>

\* Journey states a caller may send.
StateCustomSingle ==
    [EmptyState EXCEPT !.memberId = Some("m-1"), !.memberName = Some("Ann"),
                       !.hospitalId = Some("other"),
                       !.hospitalName = Some("Clinique X"),
                       !.hospitalCity = Some("Paris"), !.abroad = Some(TRUE),
                       !.admissionDate = Some(<<"2","0","2","8","-","0","3","-","0","1">>),
                       !.reason = Some(ReasonSurgery), !.accident = Some(TRUE),
                       !.roomType = Some("single"), !.notes = Some("window")]

StateCatalogDay ==
    [EmptyState EXCEPT !.memberName = Some("Bob"),
                       !.hospitalId = Some("uz-gent"),
                       !.hospitalName = Some("typed name"),
                       !.hospitalCity = Some("typed city"),
                       !.abroad = Some(TRUE),
                       !.reason = Some(ReasonCheckup),
                       !.accident = Some(FALSE), !.roomType = Some("day")]

StateUnknownMulti ==
    [EmptyState EXCEPT !.hospitalId = Some("no-such-hospital"),
                       !.hospitalName = Some("Elsewhere"),
                       !.reason = Some(KwChildbirth),
                       !.roomType = Some("multi")]

\* A state that already went through review once.
StateSubmitted ==
    reviewCase([StateCatalogDay EXCEPT !.hospitalId = Some("")],
               [id |-> 23456, member |-> <<5, 5, 5, 5, 5>>])

InputStates == { EmptyState, StateCustomSingle, StateCatalogDay,
                 StateUnknownMulti, StateSubmitted }

NoRequest == [step |-> None, language |-> None, state |-> None, goBack |-> None]

NoResponse ==
    [ structuredContent |-> [step |-> "", state |-> EmptyState,
                             language |-> "", hospitalList |-> <<>>],
      content |-> <<>> ]

----------------------------------------------------------------------------
(* Values of the variables of a component that takes no part in a run *)

IdleJourney ==
    /\ called = FALSE
    /\ req = NoRequest
    /\ resp = NoResponse
    /\ drawn = NoDraw
    /\ prev = None
    /\ rejected = None
    /\ backFrom = "none"
    /\ backRun = 0

IdleGenerators ==
    /\ genState = EmptyState
    /\ genDraw = NoDraw.member
    /\ genData = None

IdleWidget ==
    /\ shown = None
    /\ pending = <<>>
    /\ validationError = None

IdleUpload ==
    /\ file = None
    /\ options = None
    /\ validation = None

IdleFilename ==
    /\ filename = <<>>
    /\ sanitized = None

IdleProcess ==
    /\ procArgs = None
    /\ procFault = None
    /\ procResult = None

IdleDashboard ==
    /\ refreshInterval = None
    /\ isPaused = FALSE
    /\ timers = {}
    /\ fetching = 0
    /\ metricsShown = None

IdleFileWidget ==
    /\ currentFileState = None
    /\ fileSelectedShown = FALSE
    /\ processBtnDisabled = FALSE
    /\ loadingShown = FALSE
    /\ processing = <<>>
    /\ resultShown = None

IdleForward == forwardFrom = "none" /\ forwardRun = 0

IdleApps ==
    /\ IdleFilename /\ IdleProcess /\ IdleDashboard /\ IdleFileWidget
    /\ IdleForward

----------------------------------------------------------------------------
(* Actions *)

\* The server answers one call: the handler runs to completion on the
\* arguments, the current date and the draws it consumes.
Answer(args) ==
    \E rnd \in DrawsFor(args) :
        /\ parseSucceeds(args)
        /\ req' = args
        /\ resp' = hospital_journey(args, clock, rnd)
        /\ drawn' = rnd
        /\ rejected' = None

\* A conversation opens: a host or widget calls the tool with arguments of
\* its own.
Call ==
    /\ ~called
    /\ \E step \in Opt(Steps), language \in Opt(Languages),
          state \in Opt(InputStates), goBack \in Opt(BOOLEAN) :
        Answer([step |-> step, language |-> language, state |-> state,
                goBack |-> goBack])
    /\ called' = TRUE
    /\ prev' = None
    /\ UNCHANGED <<clock, backFrom, backRun, elsewhere>>

\* A caller names a language the schema does not list: parse throws and the
\* call fails without a result.
CallRejected ==
    /\ ~called
    /\ \E step \in Opt(Steps), language \in UnsupportedLanguages,
          state \in Opt(InputStates), goBack \in Opt(BOOLEAN) :
        LET args == [step |-> step, language |-> Some(language),
                     state |-> state, goBack |-> goBack]
        IN  /\ ~parseSucceeds(args)
            /\ req' = args
    /\ resp' = NoResponse
    /\ drawn' = NoDraw
    /\ prev' = None
    /\ rejected' = Some(ZodInvalidEnumValue)
    /\ UNCHANGED <<clock, called, backFrom, backRun, elsewhere>>

\* The caller carries the journey on: it sends back the step and the state
\* of the previous response.
CallCarried ==
    /\ called
    /\ \E language \in Opt(Languages), goBack \in Opt(BOOLEAN) :
        Answer([step |-> Some(resp.structuredContent.step),
                language |-> language,
                state |-> Some(resp.structuredContent.state),
                goBack |-> goBack])
    /\ prev' = None
    /\ UNCHANGED <<clock, called, backFrom, backRun, elsewhere>>

\* The caller retries: the same arguments are sent once more.
CallAgain ==
    /\ called
    /\ Answer(req)
    /\ prev' = Some([resp |-> resp, drawn |-> drawn])
    /\ UNCHANGED <<clock, called, backFrom, backRun, elsewhere>>

\* The conversation is dropped; the server keeps nothing of it.
NewJourney ==
    /\ called
    /\ called' = FALSE
    /\ req' = NoRequest
    /\ resp' = NoResponse
    /\ drawn' = NoDraw
    /\ prev' = None
    /\ rejected' = None
    /\ UNCHANGED <<clock, backFrom, backRun, elsewhere>>

\* Midnight passes.
Tick ==
    /\ \E s \in StartDates, k \in 0..(MaxDays - 1) : clock = AddDays(s, k)
    /\ clock' = NextDay(clock)
    /\ UNCHANGED <<called, req, resp, drawn, prev, rejected, backFrom, backRun,
                   elsewhere>>

Init ==
    /\ clock \in StartDates
    /\ called = FALSE
    /\ req = NoRequest
    /\ resp = NoResponse
    /\ drawn = NoDraw
    /\ prev = None
    /\ rejected = None
    /\ backFrom = "none"
    /\ backRun = 0
    /\ IdleGenerators /\ IdleWidget /\ IdleUpload /\ IdleApps

Next == Call \/ CallRejected \/ CallCarried \/ CallAgain \/ NewJourney \/ Tick

Spec == Init /\ [][Next]_vars

----------------------------------------------------------------------------
(* Runs of chained goBack calls: the first call names any step and state,  *)
(* every further call passes the step and state returned by the one before *)

BackFirst ==
    /\ backRun = 0
    /\ \E state \in InputStates, language \in Opt(Languages) :
        Answer([step |-> Some(backFrom), language |-> language,
                state |-> Some(state), goBack |-> Some(TRUE)])
    /\ called' = TRUE
    /\ backRun' = 1
    /\ UNCHANGED <<clock, prev, backFrom, elsewhere>>

BackAgain ==
    /\ backRun > 0
    /\ backRun < MaxBackRun
    /\ Answer([step |-> Some(resp.structuredContent.step),
               language |-> req.language,
               state |-> Some(resp.structuredContent.state),
               goBack |-> Some(TRUE)])
    /\ backRun' = backRun + 1
    /\ UNCHANGED <<clock, called, prev, backFrom, elsewhere>>

InitBack ==
    /\ clock \in StartDates
    /\ called = FALSE
    /\ req = NoRequest
    /\ resp = NoResponse
    /\ drawn = NoDraw
    /\ prev = None
    /\ rejected = None
    /\ backFrom \in Steps
    /\ backRun = 0
    /\ IdleGenerators /\ IdleWidget /\ IdleUpload /\ IdleApps

NextBack == BackFirst \/ BackAgain

SpecBack == InitBack /\ [][NextBack]_vars

----------------------------------------------------------------------------
(* The insurance data generators on their own: generateInsuranceData is    *)
(* applied to a journey state and to five independent Math.random draws    *)

ReasonOperation == <<"O","p","e","r","a","t","i","o","n">>

\* One letter short of a keyword.
ReasonSurger == <<"s","u","r","g","e","r">>

Reasons == { <<>>, ReasonSurgery, ReasonOperation, KwChildbirth,
             ReasonCheckup, ReasonSurger }

\* The fields of the journey state the generators read.
GeneratorStates ==
    { [EmptyState EXCEPT !.reason = reason, !.roomType = roomType,
                         !.accident = accident] :
      reason \in Opt(Reasons), roomType \in Opt(RoomTypes),
      accident \in Opt(BOOLEAN) }

\* Math.floor(Math.random() * n) of each of the five draws, sampled
\* independently of the others.
MemberDraws ==
    { [i \in 1..5 |-> SampleAt(MemberDrawRanges[i], k[i])] :
      k \in [1..5 -> SampleIndexes] }

Generate ==
    /\ genData = None
    /\ genData' = Some(generateInsuranceData(genState, genDraw))
    /\ UNCHANGED <<genState, genDraw, journeyVars, appVars, widgetVars, uploadVars>>

InitGenerators ==
    /\ genState \in GeneratorStates
    /\ genDraw \in MemberDraws
    /\ genData = None
    /\ clock = <<2027, 12, 24>>
    /\ IdleJourney /\ IdleWidget /\ IdleUpload /\ IdleApps

NextGenerators == Generate

SpecGenerators == InitGenerators /\ [][NextGenerators]_vars

----------------------------------------------------------------------------
(* File upload validation (the file upload utilities).  MIME types, file   *)
(* names, base64 text and error messages are TLA+ strings, read with Len   *)
(* and SubSeq; a Buffer is a sequence of bytes 0..255; sizes stay below    *)
(* 1 GB.                                                                   *)

MAGIC_NUMBERS == <<
    [bytes |-> <<137, 80, 78, 71, 13, 10, 26, 10>>, mimeType |-> "image/png"],
    [bytes |-> <<255, 216, 255>>, mimeType |-> "image/jpeg"],
    [bytes |-> <<71, 73, 70, 56>>, mimeType |-> "image/gif"],
    [bytes |-> <<66, 77>>, mimeType |-> "image/bmp"],
    [bytes |-> <<73, 73, 42, 0>>, mimeType |-> "image/tiff"],
    [bytes |-> <<77, 77, 0, 42>>, mimeType |-> "image/tiff"],
    [bytes |-> <<37, 80, 68, 70>>, mimeType |-> "application/pdf"],
    [bytes |-> <<80, 75, 3, 4>>, mimeType |-> "application/zip"],
    [bytes |-> <<208, 207, 17, 224>>, mimeType |-> "application/msword"],
    [bytes |-> <<239, 187, 191>>, mimeType |-> "text/plain"],
    [bytes |-> <<31, 139>>, mimeType |-> "application/gzip"],
    [bytes |-> <<82, 97, 114, 33>>, mimeType |-> "application/x-rar-compressed"],
    [bytes |-> <<73, 68, 51>>, mimeType |-> "audio/mpeg"],
    [bytes |-> <<102, 116, 121, 112>>, mimeType |-> "video/mp4"] >>

Base64Chars ==
    "ABCDEFGHIJKLMNOPQRSTUVWXYZabcdefghijklmnopqrstuvwxyz0123456789+/"

\* Value of one base64 character, -1 for a character outside the alphabet
\* (the padding "=" included); the URL-safe "-" and "_" are accepted.
unbase64(c) ==
    IF c = "-" THEN 62
    ELSE IF c = "_" THEN 63
    ELSE IF \E i \in 1..64 : SubSeq(Base64Chars, i, i) = c
         THEN (CHOOSE i \in 1..64 : SubSeq(Base64Chars, i, i) = c) - 1
         ELSE -1

\* The 6-bit values of the text, characters outside the alphabet skipped.
RECURSIVE sextetsOf(_)
sextetsOf(s) ==
    IF Len(s) = 0 THEN <<>>
    ELSE LET v == unbase64(SubSeq(s, 1, 1))
             rest == sextetsOf(SubSeq(s, 2, Len(s)))
         IN  IF v < 0 THEN rest ELSE <<v>> \o rest

\* Four 6-bit values give three bytes; a last group of two gives one byte,
\* of three gives two bytes, of one gives none.
RECURSIVE bytesOf(_)
bytesOf(q) ==
    IF Len(q) < 2 THEN <<>>
    ELSE LET b1 == q[1] * 4 + (q[2] \div 16)
         IN  IF Len(q) = 2 THEN <<b1>>
             ELSE LET b2 == (q[2] % 16) * 16 + (q[3] \div 4)
                  IN  IF Len(q) = 3 THEN <<b1, b2>>
                      ELSE <<b1, b2, (q[3] % 4) * 64 + q[4]>>
                           \o bytesOf(SubSeq(q, 5, Len(q)))

\* Buffer.from(base64, 'base64')
base64ToBuffer(base64) == bytesOf(sextetsOf(base64))

matchesMagicNumber(buffer, magicBytes) ==
    IF Len(buffer) < Len(magicBytes) THEN FALSE
    ELSE \A index \in 1..Len(magicBytes) : buffer[index] = magicBytes[index]

getMimeTypeFromMagicNumber(buffer) ==
    LET hits == { i \in 1..Len(MAGIC_NUMBERS) :
                    matchesMagicNumber(buffer, MAGIC_NUMBERS[i].bytes) }
    IN  IF hits = {} THEN "application/octet-stream"
        ELSE MAGIC_NUMBERS[CHOOSE i \in hits : \A j \in hits : i <= j].mimeType

\* parseFloat((bytes / 1024^i).toFixed(2)) + ' ' + sizes[i]: the quotient
\* rounded to hundredths, trailing zeros of the fraction dropped.
formatFileSize(bytes) ==
    IF bytes = 0 THEN "0 Bytes"
    ELSE LET sizes == <<"Bytes", "KB", "MB", "GB", "TB">>
             i == IF bytes < 1024 THEN 0
                  ELSE IF bytes < 1024 * 1024 THEN 1
                  ELSE IF bytes < 1024 * 1024 * 1024 THEN 2
                  ELSE 3
             unit == 1024 ^ i
             hundredths == (bytes \div unit) * 100
                           + ((bytes % unit) * 200 + unit) \div (2 * unit)
             whole == hundredths \div 100
             frac == hundredths % 100
             fraction == IF frac = 0 THEN ""
                         ELSE IF frac % 10 = 0
                              THEN "." \o ToString(frac \div 10)
                         ELSE IF frac < 10 THEN ".0" \o ToString(frac)
                         ELSE "." \o ToString(frac)
         IN  ToString(whole) \o fraction \o " " \o sizes[i + 1]

\* Array.prototype.join
RECURSIVE join(_, _)
join(items, separator) ==
    IF Len(items) = 0 THEN ""
    ELSE IF Len(items) = 1 THEN items[1]
    ELSE items[1] \o separator \o join(Tail(items), separator)

\* Array.prototype.includes on a sequence
contains(items, item) == \E i \in 1..Len(items) : items[i] = item

FILE_UPLOAD_PRESETS ==
    [ IMAGES |->
        [ maxSizeBytes |-> 5 * 1024 * 1024,
          allowedMimeTypes |-> <<"image/png", "image/jpeg", "image/gif">>,
          requireMagicNumberCheck |-> TRUE,
          customValidator |-> None ],
      DOCUMENTS |->
        [ maxSizeBytes |-> 10 * 1024 * 1024,
          allowedMimeTypes |->
              << "application/pdf", "application/msword",
                 "application/vnd.openxmlformats-officedocument.wordprocessingml.document",
                 "text/plain" >>,
          requireMagicNumberCheck |-> TRUE,
          customValidator |-> None ],
      PERMISSIVE |->
        [ maxSizeBytes |-> 50 * 1024 * 1024,
          allowedMimeTypes |-> <<"*">>,
          requireMagicNumberCheck |-> FALSE,
          customValidator |-> None ] ]

\* A ValidationResult: error and details are optional.
Passed == [valid |-> TRUE, error |-> None, details |-> None]

Failed(error, details) ==
    [valid |-> FALSE, error |-> Some(error), details |-> details]

\* Mutation of validateUploadedFile: the MIME type is not looked up in
\* allowedMimeTypes.
validateUploadedFile_noMimeCheck(f, opts) ==
    IF f.sizeBytes > opts.maxSizeBytes
    THEN Failed("File size " \o formatFileSize(f.sizeBytes)
                \o " exceeds limit of " \o formatFileSize(opts.maxSizeBytes),
                Some([actualSize |-> f.sizeBytes]))
    ELSE LET detectedMime ==
                 getMimeTypeFromMagicNumber(base64ToBuffer(f.base64Content))
         IN  IF /\ opts.requireMagicNumberCheck
                /\ detectedMime # f.mimeType
                /\ detectedMime # "application/octet-stream"
             THEN Failed("MIME type mismatch: claimed '" \o f.mimeType
                         \o "', but file signature indicates '"
                         \o detectedMime \o "'",
                         Some([detectedMimeType |-> detectedMime]))
             ELSE IF IsSome(opts.customValidator)
                     /\ ~opts.customValidator[1].valid
             THEN opts.customValidator[1]
             ELSE Passed

\* opts.customValidator, when given, is the result the custom validator
\* resolves with for this file.
validateUploadedFile(f, opts) ==
    IF f.sizeBytes > opts.maxSizeBytes
    THEN Failed("File size " \o formatFileSize(f.sizeBytes)
                \o " exceeds limit of " \o formatFileSize(opts.maxSizeBytes),
                Some([actualSize |-> f.sizeBytes]))
    ELSE IF ~contains(opts.allowedMimeTypes, f.mimeType)
    THEN Failed("MIME type '" \o f.mimeType \o "' not allowed. Allowed types: "
                \o join(opts.allowedMimeTypes, ", "),
                None)
    ELSE LET detectedMime ==
                 getMimeTypeFromMagicNumber(base64ToBuffer(f.base64Content))
         IN  IF /\ opts.requireMagicNumberCheck
                /\ detectedMime # f.mimeType
                /\ detectedMime # "application/octet-stream"
             THEN Failed("MIME type mismatch: claimed '" \o f.mimeType
                         \o "', but file signature indicates '"
                         \o detectedMime \o "'",
                         Some([detectedMimeType |-> detectedMime]))
             ELSE IF IsSome(opts.customValidator)
                     /\ ~opts.customValidator[1].valid
             THEN opts.customValidator[1]
             ELSE Passed

\* Uploaded files: the client states the MIME type and the size, the
\* content is base64 text.
PngContent == "iVBORw0KGgo="

JpegContent == "/9j/4A=="

PdfContent == "JVBERi0xLjQ="

HtmlContent == "PGh0bWw+"

\* An MP4 file: the bytes "ftyp" come after a four-byte box length.
Mp4Content == "AAAAGGZ0eXBtcDQy"

Contents == { "", "dummy", PngContent, JpegContent, PdfContent, HtmlContent,
              Mp4Content }

MimeTypes == { "image/png", "image/jpeg", "application/pdf", "text/html",
               "video/mp4" }

FileSizes == { 0, 1536, 5 * 1024 * 1024, 5 * 1024 * 1024 + 1,
               10 * 1024 * 1024 + 1, 50 * 1024 * 1024 + 1 }

UploadedFiles ==
    { [filename |-> "scan.png", mimeType |-> mimeType, sizeBytes |-> sizeBytes,
       base64Content |-> content] :
      mimeType \in MimeTypes, sizeBytes \in FileSizes, content \in Contents }

\* Results a custom validator may resolve with.
CustomResults == { Passed, Failed("Custom validation failed", None) }

\* The presets, and the presets with the signature check switched and a
\* custom validator added; the option set of the unit tests.
TestOptions ==
    [ maxSizeBytes |-> 5 * 1024 * 1024,
      allowedMimeTypes |-> <<"image/png", "image/jpeg">>,
      requireMagicNumberCheck |-> TRUE,
      customValidator |-> None ]

UploadOptions ==
    { [preset EXCEPT !.requireMagicNumberCheck = check,
                     !.customValidator = custom] :
      preset \in { FILE_UPLOAD_PRESETS.IMAGES, FILE_UPLOAD_PRESETS.DOCUMENTS,
                   FILE_UPLOAD_PRESETS.PERMISSIVE, TestOptions },
      check \in BOOLEAN, custom \in Opt(CustomResults) }

Validate ==
    /\ validation = None
    /\ validation' = Some(validateUploadedFile(file, options))
    /\ UNCHANGED <<file, options, journeyVars, appVars, generatorVars, widgetVars>>

InitUpload ==
    /\ file \in UploadedFiles
    /\ options \in UploadOptions
    /\ validation = None
    /\ clock = <<2027, 12, 24>>
    /\ IdleJourney /\ IdleGenerators /\ IdleWidget /\ IdleApps

NextUpload == Validate

SpecUpload == InitUpload /\ [][NextUpload]_vars

----------------------------------------------------------------------------
(* The Hospi-Copilot widget: it renders the latest tool result, and its    *)
(* buttons send the next hospital_journey call.  What the user typed or    *)
(* picked in the form at the moment of a click is an input of the click.   *)

IsBlank(c) == c \in { " ", "\t" }

\* String.prototype.trim on a TLA+ string
trim(s) ==
    LET kept == { i \in 1..Len(s) : ~IsBlank(SubSeq(s, i, i)) }
    IN  IF kept = {} THEN ""
        ELSE SubSeq(s, CHOOSE i \in kept : \A j \in kept : i <= j,
                       CHOOSE i \in kept : \A j \in kept : j <= i)

\* String.prototype.trim on a sequence of characters
trimText(s) ==
    LET kept == { i \in 1..Len(s) : ~IsBlank(s[i]) }
    IN  IF kept = {} THEN <<>>
        ELSE SubSeq(s, CHOOSE i \in kept : \A j \in kept : i <= j,
                       CHOOSE i \in kept : \A j \in kept : j <= i)

\* Mutation of validateStep: the fields are tested without trim.
validateStep_noTrim(step, state) ==
    IF step = "select_member"
    THEN IF StrOr(state.memberName, "") = ""
         THEN Some("Please enter the patient's name")
         ELSE None
    ELSE IF step = "select_hospital"
    THEN IF StrOr(state.hospitalName, "") = ""
         THEN Some("Please select a hospital or enter a custom hospital name")
         ELSE IF StrOr(state.hospitalCity, "") = ""
         THEN Some("Please enter the hospital city")
         ELSE None
    ELSE IF step = "admission_details"
    THEN IF TextOr(state.admissionDate, <<>>) = <<>>
         THEN Some("Please select an admission date")
         ELSE IF TextOr(state.reason, <<>>) = <<>>
         THEN Some("Please enter the reason for admission")
         ELSE None
    ELSE None

\* validateStep: Some(message) for the first blank required field, None
\* for null.
validateStep(step, state) ==
    IF step = "select_member"
    THEN IF trim(StrOr(state.memberName, "")) = ""
         THEN Some("Please enter the patient's name")
         ELSE None
    ELSE IF step = "select_hospital"
    THEN IF trim(StrOr(state.hospitalName, "")) = ""
         THEN Some("Please select a hospital or enter a custom hospital name")
         ELSE IF trim(StrOr(state.hospitalCity, "")) = ""
         THEN Some("Please enter the hospital city")
         ELSE None
    ELSE IF step = "admission_details"
    THEN IF trimText(TextOr(state.admissionDate, <<>>)) = <<>>
         THEN Some("Please select an admission date")
         ELSE IF trimText(TextOr(state.reason, <<>>)) = <<>>
         THEN Some("Please enter the reason for admission")
         ELSE None
    ELSE None

\* The arguments callJourney(update, step, goBack) sends.
callJourney(update, step, goBack) ==
    [ step |-> Some(step), language |-> None, state |-> Some(update),
      goBack |-> Some(goBack) ]

\* What the user may have typed or picked.
TypedNames == { "", " \t ", "Ann" }

HospitalChoices == { "", "other", "uz-gent" }

TypedHospitalNames == { "", "  ", "Clinique X" }

TypedCities == { "", " ", "Paris" }

TypedDates == { <<>>, <<"2","0","2","8","-","0","3","-","0","1">> }

TypedReasons == { <<>>, <<" ", " ">>, ReasonSurgery }

\* Calls the host makes for the model before the widget shows anything.
HostCalls ==
    { [step |-> step, language |-> language, state |-> state,
       goBack |-> None] :
      step \in { None, Some("select_hospital") },
      language \in { None, Some("nl") },
      state \in { None, Some(StateCatalogDay) } }

shownStep == IF IsSome(shown) THEN shown[1].step ELSE "none"

\* renderStep(data): the container is rebuilt, which also drops a
\* validation message.
renderStep(data) ==
    /\ shown' = Some(data)
    /\ validationError' = None

\* The end of a Next handler: validate, then either show the message and
\* return, or call the tool.
validateThenCall(step, updatedState) ==
    LET error == validateStep(step, updatedState)
    IN  IF IsSome(error)
        THEN /\ validationError' = error
             /\ UNCHANGED <<shown, pending>>
        ELSE /\ Len(pending) < MaxPending
             /\ pending' = Append(pending, callJourney(updatedState, step, FALSE))
             /\ UNCHANGED <<shown, validationError>>

\* app.ontoolresult: the host hands over the result of a call it made.
ToolResult ==
    /\ shown = None
    /\ \E args \in HostCalls : \E rnd \in DrawsFor(args) :
        renderStep(hospital_journey(args, clock, rnd).structuredContent)
    /\ UNCHANGED <<pending, journeyVars, appVars, generatorVars, uploadVars>>

\* click on #memberNext
MemberNext ==
    /\ shownStep = "select_member"
    /\ \E memberName \in TypedNames :
        validateThenCall("select_member",
            [shown[1].state EXCEPT !.memberName = Some(memberName)])
    /\ UNCHANGED <<journeyVars, appVars, generatorVars, uploadVars>>

\* click on #hospitalNext
HospitalNext ==
    /\ shownStep = "select_hospital"
    /\ \E hospitalId \in HospitalChoices, typedName \in TypedHospitalNames,
          typedCity \in TypedCities, abroad \in BOOLEAN :
        LET state == shown[1].state
            hospitalList == shown[1].hospitalList
            picked == hospitalId # "" /\ hospitalId # "other"
            hits == { i \in 1..Len(hospitalList) :
                        hospitalList[i].id = hospitalId }
            hospital == IF hits = {} THEN None
                        ELSE Some(hospitalList[CHOOSE i \in hits :
                                                 \A j \in hits : i <= j])
            hospitalName ==
                IF picked
                THEN IF IsSome(hospital) THEN hospital[1].name
                     ELSE StrOr(state.hospitalName, "")
                ELSE typedName
            hospitalCity ==
                IF picked
                THEN IF IsSome(hospital) THEN hospital[1].city
                     ELSE StrOr(state.hospitalCity, "")
                ELSE typedCity
        IN  validateThenCall("select_hospital",
                [state EXCEPT
                    !.hospitalId = Some(IF hospitalId = "" THEN "other"
                                        ELSE hospitalId),
                    !.hospitalName = Some(hospitalName),
                    !.hospitalCity = Some(hospitalCity),
                    !.abroad = Some(abroad)])
    /\ UNCHANGED <<journeyVars, appVars, generatorVars, uploadVars>>

\* click on #detailsNext
DetailsNext ==
    /\ shownStep = "admission_details"
    /\ \E admissionDate \in TypedDates, reason \in TypedReasons,
          accident \in BOOLEAN :
        validateThenCall("admission_details",
            [shown[1].state EXCEPT !.admissionDate = Some(admissionDate),
                                   !.reason = Some(reason),
                                   !.accident = Some(accident)])
    /\ UNCHANGED <<journeyVars, appVars, generatorVars, uploadVars>>

\* click on #roomNext: no validation
RoomNext ==
    /\ shownStep = "room_type"
    /\ Len(pending) < MaxPending
    /\ \E roomType \in RoomTypes :
        pending' = Append(pending,
            callJourney([shown[1].state EXCEPT !.roomType = Some(roomType)],
                        "room_type", FALSE))
    /\ UNCHANGED <<shown, validationError, journeyVars, appVars, generatorVars,
                   uploadVars>>

\* click on #submitBtn
Submit ==
    /\ shownStep = "review"
    /\ Len(pending) < MaxPending
    /\ pending' = Append(pending, callJourney(shown[1].state, "review", FALSE))
    /\ UNCHANGED <<shown, validationError, journeyVars, appVars, generatorVars,
                   uploadVars>>

\* click on #backBtn, rendered on select_hospital .. review
Back ==
    /\ shownStep \in { "select_hospital", "admission_details", "room_type",
                       "review" }
    /\ Len(pending) < MaxPending
    /\ pending' = Append(pending, callJourney(shown[1].state, shownStep, TRUE))
    /\ UNCHANGED <<shown, validationError, journeyVars, appVars, generatorVars,
                   uploadVars>>

\* One callServerTool promise resolves: the server has answered that call
\* and callJourney renders the result.
Reply ==
    /\ \E i \in 1..Len(pending) :
        /\ parseSucceeds(pending[i])
        /\ \E rnd \in DrawsFor(pending[i]) :
            renderStep(hospital_journey(pending[i], clock, rnd).structuredContent)
        /\ pending' = SubSeq(pending, 1, i - 1)
                      \o SubSeq(pending, i + 1, Len(pending))
    /\ UNCHANGED <<journeyVars, appVars, generatorVars, uploadVars>>

\* setTimeout(() => error.remove(), 4000)
ErrorTimeout ==
    /\ IsSome(validationError)
    /\ validationError' = None
    /\ UNCHANGED <<shown, pending, journeyVars, appVars, generatorVars, uploadVars>>

InitWidget ==
    /\ IdleWidget
    /\ clock = <<2027, 12, 24>>
    /\ IdleJourney /\ IdleGenerators /\ IdleUpload /\ IdleApps

NextWidget ==
    \/ ToolResult \/ MemberNext \/ HospitalNext \/ DetailsNext \/ RoomNext
    \/ Submit \/ Back \/ Reply \/ ErrorTimeout

SpecWidget == InitWidget /\ [][NextWidget]_vars

----------------------------------------------------------------------------
(* Runs of chained forward calls: the first call names any step and state, *)
(* every further call passes the step and state returned by the one before *)
(* it, with goBack false or left out.                                       *)

ForwardFirst ==
    /\ forwardRun = 0
    /\ \E state \in Opt(InputStates), language \in Opt(Languages),
          goBack \in { None, Some(FALSE) } :
        \E step \in { Some(forwardFrom) }
                    \cup (IF forwardFrom = "start" THEN { None } ELSE {}) :
            Answer([step |-> step, language |-> language, state |-> state,
                    goBack |-> goBack])
    /\ called' = TRUE
    /\ forwardRun' = 1
    /\ UNCHANGED <<clock, prev, backFrom, backRun, forwardFrom, generatorVars,
                   widgetVars, uploadVars, filenameVars, processVars,
                   dashboardVars, fileWidgetVars>>

ForwardAgain ==
    /\ forwardRun > 0
    /\ forwardRun < MaxForwardRun
    /\ \E goBack \in { None, Some(FALSE) } :
        Answer([step |-> Some(resp.structuredContent.step),
                language |-> req.language,
                state |-> Some(resp.structuredContent.state),
                goBack |-> goBack])
    /\ forwardRun' = forwardRun + 1
    /\ UNCHANGED <<clock, called, prev, backFrom, backRun, forwardFrom,
                   generatorVars, widgetVars, uploadVars, filenameVars,
                   processVars, dashboardVars, fileWidgetVars>>

InitForward ==
    /\ clock \in StartDates
    /\ IdleJourney
    /\ forwardFrom \in Steps
    /\ forwardRun = 0
    /\ IdleGenerators /\ IdleWidget /\ IdleUpload
    /\ IdleFilename /\ IdleProcess /\ IdleDashboard /\ IdleFileWidget

NextForward == ForwardFirst \/ ForwardAgain

SpecForward == InitForward /\ [][NextForward]_vars

----------------------------------------------------------------------------
(* File names: sanitizeFilename and isValidFilename.  A file name is a     *)
(* sequence of characters (UTF-16 code units), one string per character.   *)

\* The NUL character, which a TLA+ string cannot hold.
NUL == "<NUL>"

\* The characters of a TLA+ string, as a sequence.
Chars(s) == [i \in 1..Len(s) |-> SubSeq(s, i, i)]

\* String.prototype.repeat for a single character
Repeat(c, n) == [i \in 1..n |-> c]

\* The class [a-zA-Z0-9._-]
SafeChars ==
    LET class == "abcdefghijklmnopqrstuvwxyzABCDEFGHIJKLMNOPQRSTUVWXYZ0123456789._-"
    IN  { SubSeq(class, i, i) : i \in 1..Len(class) }

\* .replace(/[^a-zA-Z0-9._-]/g, '_')
replaceUnsafe(s) ==
    [i \in 1..Len(s) |-> IF s[i] \in SafeChars THEN s[i] ELSE "_"]

\* .replace(/_{2,}/g, '_')
collapseUnderscores(s) ==
    LET kept == { i \in 1..Len(s) : ~(i > 1 /\ s[i] = "_" /\ s[i - 1] = "_") }
        at(j) == CHOOSE i \in kept : Cardinality({ k \in kept : k <= i }) = j
    IN  [j \in 1..Cardinality(kept) |-> s[at(j)]]

\* .replace(/^_+|_+$/g, '')
trimUnderscores(s) ==
    LET kept == { i \in 1..Len(s) : s[i] # "_" }
    IN  IF kept = {} THEN <<>>
        ELSE SubSeq(s, CHOOSE i \in kept : \A j \in kept : i <= j,
                       CHOOSE i \in kept : \A j \in kept : j <= i)

\* .substring(0, n)
substring0(s, n) == SubSeq(s, 1, IF Len(s) < n THEN Len(s) ELSE n)

sanitizeFilename(name) ==
    LET cleaned ==
            substring0(trimUnderscores(collapseUnderscores(replaceUnsafe(name))),
                       255)
    IN  IF Len(cleaned) = 0 \/ cleaned[1] = "."
        THEN <<"f", "i", "l", "e">> \o cleaned
        ELSE cleaned

isValidFilename(name) ==
    IF \/ includes(name, <<".", ".">>)
       \/ includes(name, <<"/">>)
       \/ includes(name, <<"\\">>)
    THEN FALSE
    ELSE IF includes(name, <<NUL>>) THEN FALSE
    ELSE IF Len(trimText(name)) = 0 THEN FALSE
    ELSE IF Len(name) > 255 THEN FALSE
    ELSE TRUE

\* File names a client may send: every name of up to MaxNameLen characters
\* over a small alphabet, the names of the unit tests, and long names
\* around the limit of 255 characters.
ShortNames ==
    UNION { [1..n -> {"a", ".", "_", "/", " "}] : n \in 0..MaxNameLen }

TestNames ==
    { Chars("my file!.pdf"), Chars("åäöü.txt"), Chars("file___name.pdf"),
      Chars("_file_.txt"), Chars("../../../etc/passwd"),
      Chars("..\\windows\\system32"), <<"f", "i", "l", "e", NUL, ".", "t", "x", "t">>,
      Repeat("a", 300) \o Chars(".txt") }

LongNames ==
    { prefix \o Repeat("a", n) \o suffix :
      prefix \in { <<>>, <<".">>, <<"_">> }, n \in { 254, 255, 256 },
      suffix \in { <<>>, Chars("/b") } }

Filenames == ShortNames \cup TestNames \cup LongNames

Sanitize ==
    /\ sanitized = None
    /\ sanitized' = Some(sanitizeFilename(filename))
    /\ UNCHANGED <<filename, journeyVars, generatorVars, widgetVars,
                   uploadVars, processVars, dashboardVars, fileWidgetVars,
                   forwardVars>>

InitFilename ==
    /\ filename \in Filenames
    /\ sanitized = None
    /\ clock = <<2027, 12, 24>>
    /\ IdleJourney /\ IdleGenerators /\ IdleWidget /\ IdleUpload
    /\ IdleProcess /\ IdleDashboard /\ IdleFileWidget /\ IdleForward

NextFilename == Sanitize

SpecFilename == InitFilename /\ [][NextFilename]_vars

----------------------------------------------------------------------------
(* The process_file tool of the file processor.  The handler builds the    *)
(* UploadedFile, validates it, performs the operation, and turns whatever  *)
(* is thrown inside its try block into a failure result.  A fault names    *)
(* the call that throws and what it throws; the calls the handler makes    *)
(* are recorded in the order it makes them.                                 *)

\* Math.ceil((base64Content.length * 3) / 4)
approximateSize(base64Content) == (Len(base64Content) * 3 + 3) \div 4

\* The options the handler validates with.
ProcessOptions ==
    [ maxSizeBytes |-> 10 * 1024 * 1024,
      allowedMimeTypes |->
          << "image/png", "image/jpeg", "image/gif", "application/pdf",
             "text/plain", "text/csv", "application/json" >>,
      requireMagicNumberCheck |-> TRUE,
      customValidator |-> None ]

\* calculateChecksum: the SHA-256 digest of the decoded content, kept as a
\* term over the bytes it is computed from.
calculateChecksum(base64Content) ==
    [ sha256 |-> base64ToBuffer(base64Content) ]

\* String.prototype.startsWith
startsWith(s, prefix) ==
    Len(s) >= Len(prefix) /\ SubSeq(s, 1, Len(prefix)) = prefix

\* s.split('/')[1]: the text between the first and the second "/"
secondPart(s) ==
    LET slashes == { i \in 1..Len(s) : SubSeq(s, i, i) = "/" }
        first == CHOOSE i \in slashes : \A j \in slashes : i <= j
        later == { i \in slashes : i > first }
        stop == IF later = {} THEN Len(s) + 1
                ELSE CHOOSE i \in later : \A j \in later : i <= j
    IN  SubSeq(s, first + 1, stop - 1)

IsContinuation(b) == b >= 128 /\ b <= 191

\* buffer.toString('utf8'): the UTF-16 code units of the decoded text.  An
\* ill-formed sequence gives U+FFFD for its longest well-formed start.
RECURSIVE utf8(_)
utf8(bytes) ==
    IF Len(bytes) = 0 THEN <<>>
    ELSE LET b == bytes[1]
             at(i) == IF i <= Len(bytes) THEN bytes[i] ELSE -1
             need == IF b < 128 THEN 0
                     ELSE IF b >= 194 /\ b <= 223 THEN 1
                     ELSE IF b >= 224 /\ b <= 239 THEN 2
                     ELSE IF b >= 240 /\ b <= 244 THEN 3
                     ELSE -1
             secondOk == /\ IsContinuation(at(2))
                         /\ (b = 224 => at(2) >= 160)
                         /\ (b = 237 => at(2) <= 159)
                         /\ (b = 240 => at(2) >= 144)
                         /\ (b = 244 => at(2) <= 143)
             good == IF need <= 0 \/ ~secondOk THEN 0
                     ELSE IF need = 1 \/ ~IsContinuation(at(3)) THEN 1
                     ELSE IF need = 2 \/ ~IsContinuation(at(4)) THEN 2
                     ELSE 3
             rest(n) == utf8(SubSeq(bytes, n + 1, Len(bytes)))
         IN  IF need = 0 THEN <<b>> \o rest(1)
             ELSE IF need = -1 \/ good < need THEN <<65533>> \o rest(1 + good)
             ELSE IF need = 1
                  THEN <<(b - 192) * 64 + (at(2) - 128)>> \o rest(2)
             ELSE IF need = 2
                  THEN <<(b - 224) * 4096 + (at(2) - 128) * 64 + (at(3) - 128)>>
                       \o rest(3)
             ELSE LET point == (b - 240) * 262144 + (at(2) - 128) * 4096
                               + (at(3) - 128) * 64 + (at(4) - 128)
                  IN  << 55296 + ((point - 65536) \div 1024),
                         56320 + ((point - 65536) % 1024) >> \o rest(4)

\* new Date().toISOString(); the time of day is not followed.
toISOString(now) == IsoDate(now) \o Chars("T00:00:00.000Z")

\* Type-specific analysis: the field it adds to the analysis, if any.
typeSpecific(mimeType, analysisBuffer) ==
    IF startsWith(mimeType, "image/")
    THEN [ imageInfo |->
               [ type |-> "image", format |-> secondPart(mimeType),
                 note |-> "Image file detected" ] ]
    ELSE IF mimeType = "application/pdf"
    THEN [ documentInfo |->
               [ type |-> "PDF document", note |-> "PDF file detected" ] ]
    ELSE IF startsWith(mimeType, "text/")
    THEN LET textContent ==
                 utf8(substring0(analysisBuffer, 1000))
         IN  [ textInfo |->
                   [ type |-> "text file",
                     preview |-> substring0(textContent, 200),
                     lineCount |->
                         Cardinality({ i \in 1..Len(textContent) :
                                         textContent[i] = 10 }) + 1 ] ]
    ELSE [ none \in {} |-> none ]

\* error instanceof Error ? error.message : "Unknown error"
errorMessage(thrown) == IF IsSome(thrown) THEN thrown[1] ELSE "Unknown error"

\* Mutation of process_file: the operation goes ahead whatever the
\* validation returned.
process_file_ignoresValidation(args, fault, now) ==
    LET mimeType == args.mimeType
        base64Content == args.base64Content
        operation == args.operation
        f == [ filename |-> args.filename, mimeType |-> mimeType,
               base64Content |-> base64Content,
               sizeBytes |-> approximateSize(base64Content),
               metadata |-> [ uploadedAt |-> toISOString(now) ] ]
        throws(call) == IsSome(fault) /\ fault[1].call = call
        caught ==
            [ structuredContent |->
                  [ success |-> FALSE, error |-> errorMessage(fault[1].thrown),
                    filename |-> args.filename, operation |-> operation ],
              content |-> << [ type |-> "text",
                               text |-> "(cross mark) Error processing file: "
                                        \o errorMessage(fault[1].thrown) ] >> ]
        succeeded(result) ==
            [ structuredContent |->
                  [ success |-> TRUE, operation |-> operation,
                    filename |-> args.filename, result |-> result,
                    uploadedAt |-> f.metadata.uploadedAt ],
              content |-> << [ type |-> "text",
                               text |-> "(check mark) Successfully processed "
                                        \o args.filename \o " (" \o operation
                                        \o ")" ] >> ]
        buffer == base64ToBuffer(base64Content)
        basic == [ filename |-> args.filename, mimeType |-> mimeType,
                   detectedMimeType |-> getMimeTypeFromMagicNumber(buffer),
                   size |-> formatFileSize(f.sizeBytes),
                   sizeBytes |-> f.sizeBytes,
                   checksum |-> calculateChecksum(base64Content) ]
        reading == << "validateUploadedFile", "base64ToBuffer",
                      "getMimeTypeFromMagicNumber", "calculateChecksum" >>
    IN  IF throws("validateUploadedFile")
        THEN [ response |-> caught, calls |-> << "validateUploadedFile" >> ]
        ELSE IF operation = "validate"
        THEN [ response |->
                   succeeded([ valid |-> TRUE,
                               message |-> "File passed all validation checks" ]),
               calls |-> << "validateUploadedFile" >> ]
        ELSE IF throws("calculateChecksum")
        THEN [ response |-> caught, calls |-> reading ]
        ELSE IF operation = "metadata"
        THEN [ response |->
                   succeeded(basic @@ [ uploadedAt |-> f.metadata.uploadedAt ]),
               calls |-> reading ]
        ELSE [ response |->
                   succeeded([ basic |-> basic ]
                             @@ typeSpecific(mimeType, buffer)),
               calls |-> reading ]

\* The handler of process_file.
process_file(args, fault, now) ==
    LET mimeType == args.mimeType
        base64Content == args.base64Content
        operation == args.operation
        f == [ filename |-> args.filename, mimeType |-> mimeType,
               base64Content |-> base64Content,
               sizeBytes |-> approximateSize(base64Content),
               metadata |-> [ uploadedAt |-> toISOString(now) ] ]
        throws(call) == IsSome(fault) /\ fault[1].call = call
        caught ==
            [ structuredContent |->
                  [ success |-> FALSE, error |-> errorMessage(fault[1].thrown),
                    filename |-> args.filename, operation |-> operation ],
              content |-> << [ type |-> "text",
                               text |-> "(cross mark) Error processing file: "
                                        \o errorMessage(fault[1].thrown) ] >> ]
        verdict == validateUploadedFile(f, ProcessOptions)
        invalid ==
            [ structuredContent |->
                  [ success |-> FALSE, error |-> verdict.error[1],
                    filename |-> args.filename, operation |-> operation ],
              content |-> << [ type |-> "text",
                               text |-> "(cross mark) File validation failed: "
                                        \o verdict.error[1] ] >> ]
        succeeded(result) ==
            [ structuredContent |->
                  [ success |-> TRUE, operation |-> operation,
                    filename |-> args.filename, result |-> result,
                    uploadedAt |-> f.metadata.uploadedAt ],
              content |-> << [ type |-> "text",
                               text |-> "(check mark) Successfully processed "
                                        \o args.filename \o " (" \o operation
                                        \o ")" ] >> ]
        buffer == base64ToBuffer(base64Content)
        basic == [ filename |-> args.filename, mimeType |-> mimeType,
                   detectedMimeType |-> getMimeTypeFromMagicNumber(buffer),
                   size |-> formatFileSize(f.sizeBytes),
                   sizeBytes |-> f.sizeBytes,
                   checksum |-> calculateChecksum(base64Content) ]
        reading == << "validateUploadedFile", "base64ToBuffer",
                      "getMimeTypeFromMagicNumber", "calculateChecksum" >>
    IN  IF throws("validateUploadedFile")
        THEN [ response |-> caught, calls |-> << "validateUploadedFile" >> ]
        ELSE IF ~verdict.valid
        THEN [ response |-> invalid, calls |-> << "validateUploadedFile" >> ]
        ELSE IF operation = "validate"
        THEN [ response |->
                   succeeded([ valid |-> TRUE,
                               message |-> "File passed all validation checks" ]),
               calls |-> << "validateUploadedFile" >> ]
        ELSE IF throws("calculateChecksum")
        THEN [ response |-> caught, calls |-> reading ]
        ELSE IF operation = "metadata"
        THEN [ response |->
                   succeeded(basic @@ [ uploadedAt |-> f.metadata.uploadedAt ]),
               calls |-> reading ]
        ELSE [ response |->
                   succeeded([ basic |-> basic ]
                             @@ typeSpecific(mimeType, buffer)),
               calls |-> reading ]

\* "hello\nworld", a text with a byte order mark, and "{}"
TextContent == "aGVsbG8Kd29ybGQ="

BomTextContent == "77u/YQph"

JsonContent == "e30="

GifContent == "R0lGODlh"

ProcessContents ==
    { "", PngContent, JpegContent, GifContent, PdfContent, HtmlContent,
      TextContent, BomTextContent, JsonContent }

ProcessMimeTypes ==
    { "image/png", "image/gif", "application/pdf", "text/plain", "text/csv",
      "application/json", "text/html", "video/mp4" }

Operations == { "analyze", "validate", "metadata" }

ProcessCalls ==
    { [ filename |-> "notes.txt", mimeType |-> mimeType,
        base64Content |-> content, operation |-> operation ] :
      mimeType \in ProcessMimeTypes, content \in ProcessContents,
      operation \in Operations }

\* What may be thrown inside the try block: an Error with a message, or a
\* value that is no Error.
Faults ==
    { [ call |-> call, thrown |-> thrown ] :
      call \in { "validateUploadedFile", "calculateChecksum" },
      thrown \in { Some("digest failed"), None } }

Process ==
    /\ IsSome(procArgs)
    /\ procResult = None
    /\ procResult' = Some(process_file(procArgs[1], procFault, clock))
    /\ UNCHANGED <<procArgs, procFault, journeyVars, generatorVars, widgetVars,
                   uploadVars, filenameVars, dashboardVars, fileWidgetVars,
                   forwardVars>>

InitProcess ==
    /\ procArgs \in { Some(args) : args \in ProcessCalls }
    /\ procFault \in Opt(Faults)
    /\ procResult = None
    /\ clock = <<2027, 12, 24>>
    /\ IdleJourney /\ IdleGenerators /\ IdleWidget /\ IdleUpload
    /\ IdleFilename /\ IdleDashboard /\ IdleFileWidget /\ IdleForward

NextProcess == Process

SpecProcess == InitProcess /\ [][NextProcess]_vars

----------------------------------------------------------------------------
(* The dashboard widget.  Its state is the refreshInterval handle, the     *)
(* isPaused flag, the interval timers the browser holds for it, its        *)
(* get_system_metrics calls in flight and the metrics on display.  The     *)
(* functions of the widget are operators on a record w of these values.    *)

Dashboard ==
    [ refreshInterval |-> refreshInterval, isPaused |-> isPaused,
      timers |-> timers, fetching |-> fetching, metricsShown |-> metricsShown ]

\* The widget as its script finds it: no timer, not paused.
Loaded ==
    [ refreshInterval |-> None, isPaused |-> FALSE, timers |-> {},
      fetching |-> 0, metricsShown |-> None ]

\* setInterval returns a handle no active timer has; the handle held in
\* refreshInterval is not handed out again while it is held.
freshTimer(w) ==
    CHOOSE id \in 1..(Cardinality(w.timers) + 2) :
        /\ \A t \in w.timers : t.id # id
        /\ w.refreshInterval # Some(id)
        /\ \A smaller \in 1..(id - 1) :
               \/ \E t \in w.timers : t.id = smaller
               \/ w.refreshInterval = Some(smaller)

clearInterval(w, handle) ==
    [w EXCEPT !.timers = { t \in @ : t.id # handle }]

\* fetchMetrics up to its await: nothing is sent while paused.
fetchMetrics(w) ==
    IF w.isPaused THEN w ELSE [w EXCEPT !.fetching = @ + 1]

\* updateMetrics(data): the cards show the metrics of data; data without
\* metrics makes it throw, which is reported as None.
updateMetrics(w, data) ==
    IF IsSome(data.metrics)
    THEN Some([w EXCEPT !.metricsShown = data.metrics])
    ELSE None

\* Mutation of startAutoRefresh: the timer that is running is not cleared.
startAutoRefresh_keepsOldTimer(w, interval) ==
    LET id == freshTimer(w)
    IN  [w EXCEPT !.timers = @ \cup { [id |-> id, interval |-> interval] },
                  !.refreshInterval = Some(id),
                  !.isPaused = FALSE]

startAutoRefresh(w, interval) ==
    LET id == freshTimer(w)
        cleared == IF IsSome(w.refreshInterval)
                   THEN clearInterval(w, w.refreshInterval[1])
                   ELSE w
    IN  [cleared EXCEPT
            !.timers = @ \cup { [id |-> id, interval |-> interval] },
            !.refreshInterval = Some(id),
            !.isPaused = FALSE]

pauseAutoRefresh(w) ==
    LET cleared == IF IsSome(w.refreshInterval)
                   THEN [clearInterval(w, w.refreshInterval[1])
                             EXCEPT !.refreshInterval = None]
                   ELSE w
    IN  [cleared EXCEPT !.isPaused = TRUE]

\* app.ontoolresult
ontoolresult(w, result) ==
    IF IsSome(result.structuredContent)
    THEN LET data == result.structuredContent[1]
             updated == updateMetrics(w, data)
             interval == IF IsSome(data.refreshInterval)
                            /\ data.refreshInterval[1] # 0
                         THEN data.refreshInterval[1]
                         ELSE 5000
         IN  IF IsSome(updated) THEN startAutoRefresh(updated[1], interval)
             ELSE w
    ELSE w

\* The click handler of pauseBtn
pauseClick(w) ==
    IF w.isPaused THEN fetchMetrics(startAutoRefresh(w, 5000))
    ELSE pauseAutoRefresh(w)

\* The rest of fetchMetrics, once callServerTool has settled: a result
\* with structuredContent is shown, a rejection or a throwing update is
\* caught.
fetchSettled(w, outcome) ==
    LET landed == [w EXCEPT !.fetching = @ - 1]
    IN  IF IsSome(outcome) /\ IsSome(outcome[1].structuredContent)
        THEN LET updated ==
                     updateMetrics(landed, outcome[1].structuredContent[1])
             IN  IF IsSome(updated) THEN updated[1] ELSE landed
        ELSE landed

\* Metrics a get_system_metrics result may carry.
MetricSamples ==
    { [cpu |-> Some(12), memory |-> Some(40), disk |-> Some("1h 5m")],
      [cpu |-> Some(97), memory |-> None, disk |-> None],
      [cpu |-> None, memory |-> Some(71), disk |-> Some("12d 3h")],
      [cpu |-> None, memory |-> None, disk |-> None] }

IntervalSamples == { None, Some(0), Some(1000), Some(5000), Some(60000) }

\* Tool results: without structuredContent, with metrics, and with a
\* structuredContent that has no metrics.
MetricResults ==
    { [structuredContent |-> None] }
    \cup { [structuredContent |->
                Some([metrics |-> metrics, refreshInterval |-> interval])] :
           metrics \in Opt(MetricSamples), interval \in IntervalSamples }

\* A settled call: Some(result), or None for a rejected promise.
FetchOutcomes == Opt(MetricResults)

Show(w) ==
    /\ refreshInterval' = w.refreshInterval
    /\ isPaused' = w.isPaused
    /\ timers' = w.timers
    /\ fetching' = w.fetching
    /\ metricsShown' = w.metricsShown
    /\ UNCHANGED <<journeyVars, generatorVars, widgetVars, uploadVars,
                   filenameVars, processVars, fileWidgetVars, forwardVars>>

\* click on refreshBtn
RefreshClick ==
    /\ fetching < MaxFetching
    /\ Show(fetchMetrics(Dashboard))

\* click on pauseBtn
PauseClick ==
    /\ fetching < MaxFetching
    /\ Show(pauseClick(Dashboard))

\* An interval timer fires its callback, fetchMetrics.
TimerTick ==
    /\ timers # {}
    /\ fetching < MaxFetching
    /\ Show(fetchMetrics(Dashboard))

\* The host delivers the result of a get_system_metrics call it made.
HostResult ==
    /\ \E result \in MetricResults : Show(ontoolresult(Dashboard, result))

\* One of the widget's own calls settles.
FetchSettles ==
    /\ fetching > 0
    /\ \E outcome \in FetchOutcomes : Show(fetchSettled(Dashboard, outcome))

\* The state the script leaves: initCharts(); fetchMetrics();
\* startAutoRefresh().
InitDashboard ==
    /\ LET w == startAutoRefresh(fetchMetrics(Loaded), 5000)
       IN  /\ refreshInterval = w.refreshInterval
           /\ isPaused = w.isPaused
           /\ timers = w.timers
           /\ fetching = w.fetching
           /\ metricsShown = w.metricsShown
    /\ clock = <<2027, 12, 24>>
    /\ IdleJourney /\ IdleGenerators /\ IdleWidget /\ IdleUpload
    /\ IdleFilename /\ IdleProcess /\ IdleFileWidget /\ IdleForward

NextDashboard ==
    RefreshClick \/ PauseClick \/ TimerTick \/ HostResult \/ FetchSettles

SpecDashboard == InitDashboard /\ [][NextDashboard]_vars

----------------------------------------------------------------------------
(* The file processor widget.  processing holds the arguments of the       *)
(* widget's own process_file calls that have not settled; a result the     *)
(* host delivers for a call of its own comes in through ontoolresult.      *)

\* showError(message): the result area shows the message.
showError(message) ==
    Some([ error |-> Some(message), data |-> None, help |-> FALSE ])

\* What displayResult renders of a successful result.
rendered(data) ==
    IF data.operation = "validate"
    THEN [ operation |-> data.operation ]
    ELSE IF data.operation = "metadata"
    THEN [ operation |-> data.operation,
           filename |-> data.result.filename,
           size |-> data.result.size,
           sizeBytes |-> data.result.sizeBytes,
           mimeType |-> data.result.mimeType,
           detectedMimeType |-> data.result.detectedMimeType,
           checksum |-> data.result.checksum,
           uploadedAt |-> data.result.uploadedAt ]
    ELSE IF data.operation = "analyze"
    THEN [ operation |-> data.operation, result |-> data.result ]
    ELSE [ operation |-> data.operation ]

displayResult(data) ==
    IF ~data.success
    THEN showError(IF "error" \in DOMAIN data /\ data.error # ""
                   THEN data.error ELSE "Processing failed")
    ELSE Some([ error |-> None, data |-> Some(rendered(data)),
                help |-> FALSE ])

\* Files the user may pick or drop, as handleFileSelect stores them.
SelectableFiles ==
    { [ filename |-> "notes.txt", mimeType |-> "text/plain",
        base64Content |-> TextContent, sizeBytes |-> 11 ],
      [ filename |-> "scan.png", mimeType |-> "image/png",
        base64Content |-> PngContent, sizeBytes |-> 8 ] }

\* The arguments processFile sends for the stored file.
processArguments(state, operation) ==
    [ filename |-> state.filename, mimeType |-> state.mimeType,
      base64Content |-> state.base64Content, operation |-> operation ]

\* How a call of the widget may settle: Some(result), with or without
\* structuredContent, or None with the value the promise rejects with.
SettledWith(args) ==
    { [ result |-> Some([ structuredContent |-> Some(
                              process_file(args, fault, clock)
                                  .response.structuredContent) ]),
        thrown |-> None ] :
      fault \in { None, Some([ call |-> "calculateChecksum",
                               thrown |-> Some("digest failed") ]) } }
    \cup { [ result |-> Some([ structuredContent |-> None ]),
             thrown |-> None ] }
    \cup { [ result |-> None, thrown |-> thrown ] :
           thrown \in { Some("Request timed out"), None } }

\* Results the host may deliver: of a process_file call of its own, with
\* or without the file data, or without structuredContent.
HostResults ==
    { [ structuredContent |-> None ] }
    \cup { [ structuredContent |->
                 Some(process_file(processArguments(state, operation), None,
                                   clock).response.structuredContent) ] :
           state \in SelectableFiles, operation \in { "validate", "analyze" } }
    \cup { [ structuredContent |->
                 Some(process_file(processArguments(state, "metadata"), None,
                                   clock).response.structuredContent
                      @@ [ fileData |-> state ]) ] :
           state \in SelectableFiles }

\* handleFileSelect, once the file has been read
SelectFile ==
    /\ \E picked \in SelectableFiles : currentFileState' = Some(picked)
    /\ fileSelectedShown' = TRUE
    /\ resultShown' = None
    /\ UNCHANGED <<processBtnDisabled, loadingShown, processing, journeyVars,
                   generatorVars, widgetVars, uploadVars, filenameVars,
                   processVars, dashboardVars, forwardVars>>

\* handleFileSelect, when the FileReader fails
ReadFails ==
    /\ resultShown' = showError("Failed to read file")
    /\ UNCHANGED <<currentFileState, fileSelectedShown, processBtnDisabled,
                   loadingShown, processing, journeyVars, generatorVars,
                   widgetVars, uploadVars, filenameVars, processVars,
                   dashboardVars, forwardVars>>

\* click on processBtn: processFile up to its await.  A disabled or hidden
\* button gets no click.
ProcessClick ==
    /\ fileSelectedShown
    /\ ~processBtnDisabled
    /\ Len(processing) < MaxProcessing
    /\ IF currentFileState = None
       THEN /\ resultShown' = showError("No file selected")
            /\ UNCHANGED <<processBtnDisabled, loadingShown, processing>>
       ELSE /\ \E operation \in Operations :
                processing' = Append(processing,
                    processArguments(currentFileState[1], operation))
            /\ loadingShown' = TRUE
            /\ resultShown' = None
            /\ processBtnDisabled' = TRUE
    /\ UNCHANGED <<currentFileState, fileSelectedShown, journeyVars,
                   generatorVars, widgetVars, uploadVars, filenameVars,
                   processVars, dashboardVars, forwardVars>>

\* The rest of processFile: the call settles, its outcome is shown, and
\* the finally block hides the loading indicator and enables the button.
CallSettles ==
    /\ \E i \in 1..Len(processing) :
        /\ \E outcome \in SettledWith(processing[i]) :
            resultShown' =
                IF outcome.result = None
                THEN showError(errorMessage(outcome.thrown))
                ELSE IF IsSome(outcome.result[1].structuredContent)
                THEN displayResult(outcome.result[1].structuredContent[1])
                ELSE showError("Invalid response from server")
        /\ processing' = SubSeq(processing, 1, i - 1)
                         \o SubSeq(processing, i + 1, Len(processing))
    /\ loadingShown' = FALSE
    /\ processBtnDisabled' = FALSE
    /\ UNCHANGED <<currentFileState, fileSelectedShown, journeyVars,
                   generatorVars, widgetVars, uploadVars, filenameVars,
                   processVars, dashboardVars, forwardVars>>

\* app.ontoolresult of the file processor widget
HostFileResult ==
    /\ \E result \in HostResults :
        IF IsSome(result.structuredContent)
        THEN LET data == result.structuredContent[1]
                 displayed == displayResult(data)
             IN  /\ resultShown' = Some([displayed[1] EXCEPT !.help = TRUE])
                 /\ currentFileState' =
                        IF "fileData" \in DOMAIN data
                        THEN Some([ filename |-> data.fileData.filename,
                                    mimeType |-> data.fileData.mimeType,
                                    base64Content |->
                                        data.fileData.base64Content,
                                    sizeBytes |-> data.fileData.sizeBytes ])
                        ELSE currentFileState
                 /\ fileSelectedShown' = TRUE
        ELSE /\ resultShown' = showError("Invalid response from server")
             /\ UNCHANGED <<currentFileState, fileSelectedShown>>
    /\ loadingShown' = FALSE
    /\ processBtnDisabled' = FALSE
    /\ UNCHANGED <<processing, journeyVars, generatorVars, widgetVars,
                   uploadVars, filenameVars, processVars, dashboardVars,
                   forwardVars>>

InitFileWidget ==
    /\ IdleFileWidget
    /\ clock = <<2027, 12, 24>>
    /\ IdleJourney /\ IdleGenerators /\ IdleWidget /\ IdleUpload
    /\ IdleFilename /\ IdleProcess /\ IdleDashboard /\ IdleForward

NextFileWidget ==
    SelectFile \/ ReadFails \/ ProcessClick \/ CallSettles \/ HostFileResult

SpecFileWidget == InitFileWidget /\ [][NextFileWidget]_vars

----------------------------------------------------------------------------
(* The latest call, as the claims speak of it *)

\* step and state the latest call was made with, after the schema defaults
inStep == OrElse(req.step, "start")

inState == OrElse(req.state, EmptyState)

goesBack == Truthy(req.goBack)

outStep == resp.structuredContent.step

outState == resp.structuredContent.state

\* Position of a step in the fixed order start .. submitted, from 0.
Position(step) == indexOf(step)

StepAt(i) == stepOrder[i + 1]

----------------------------------------------------------------------------
(* Claims *)

\* C1: a call with goBack false or absent at any step s other than submitted
\* returns the step that follows s in the fixed order, whatever the state and
\* the language.
C1_ForwardReturnsSuccessor ==
    (called /\ ~goesBack /\ inStep # "submitted")
        => outStep = StepAt(Position(inStep) + 1)

C1_Witness ==
    /\ called /\ req.goBack = None /\ req.language = Some("nl")
    /\ req.step = Some("room_type") /\ req.state = Some(StateCustomSingle)
    /\ outStep = "review"

\* C2: a call with goBack=true at any step s other than start returns the
\* step one position before s in the fixed order.
C2_BackReturnsPredecessor ==
    (called /\ goesBack /\ inStep # "start")
        => outStep = StepAt(Position(inStep) - 1)

\* C3: a call with step=start and goBack=true returns step=start.
C3_BackAtStartReturnsStart ==
    (called /\ goesBack /\ inStep = "start") => outStep = "start"

\* C4: a run of goBack calls from a step of index i, each passing the step
\* returned before, returns start from the i-th call on (and on any further
\* goBack call).
C4_BackRunReachesStart ==
    (backRun >= 1 /\ backRun >= Position(backFrom)) => outStep = "start"

\* C5 as stated: for each step s other than start, the predecessor of the
\* step a forward call at s returns is s.
C5_RoundTripExceptStart ==
    (called /\ ~goesBack /\ inStep # "start") => previousOf(outStep) = inStep

\* C5 amended: for each step s other than submitted, the predecessor of the
\* step a forward call at s returns is s.
C5_RoundTripExceptSubmitted ==
    (called /\ ~goesBack /\ inStep # "submitted")
        => previousOf(outStep) = inStep

C5_Witness ==
    /\ called /\ ~goesBack /\ inStep = "review"
    /\ outStep = "submitted" /\ previousOf(outStep) = "review"

\* C6: along calls that each receive the state returned by the call before,
\* once insuranceData and declarationId are set no later call changes them.
C6_InsuranceGeneratedOnce ==
    [][ ( /\ called /\ called'
          /\ req'.state = Some(outState)
          /\ IsSome(outState.insuranceData) )
        => /\ outState'.insuranceData = outState.insuranceData
           /\ outState'.declarationId = outState.declarationId ]_vars

\* C7: a call with goBack=true returns the declarationId and insuranceData
\* of its input state, at every step.
C7_BackNeverGenerates ==
    (called /\ goesBack)
        => /\ outState.declarationId = inState.declarationId
           /\ outState.insuranceData = inState.insuranceData

\* C8: at every step other than review, a forward call that repeats the
\* arguments of the call before returns what that call returned.
C8_ForwardIdempotent ==
    (called /\ IsSome(prev) /\ ~goesBack /\ inStep # "review")
        => resp = prev[1].resp

\* C9 as stated: two forward calls at review with the same arguments return
\* two different declarationId values.
C9_ReviewIdsAlwaysDiffer ==
    (called /\ IsSome(prev) /\ ~goesBack /\ inStep = "review")
        => outState.declarationId
               # prev[1].resp.structuredContent.state.declarationId

\* C9 amended: two forward calls at review with the same arguments each
\* return the declarationId of their own draw; the two values differ exactly
\* when the two draws differ.
C9_ReviewIdsDifferWithDraws ==
    (called /\ IsSome(prev) /\ ~goesBack /\ inStep = "review")
        => ( outState.declarationId
                 # prev[1].resp.structuredContent.state.declarationId
             <=> drawn.id # prev[1].drawn.id )

C9_Witness ==
    /\ called /\ IsSome(prev) /\ ~goesBack /\ inStep = "review"
    /\ IsSome(inState.declarationId)
    /\ drawn.id # prev[1].drawn.id
    /\ outState.declarationId
           # prev[1].resp.structuredContent.state.declarationId

\* C10: the coverage generated at review is 75 exactly when roomType is
\* "single" and 100 for any other or an absent roomType, and the co-pay is
\* "€0" whenever the coverage is 100.
C10_CoverageByRoomType ==
    (called /\ effectiveStep(inStep, req.goBack) = "review")
        => LET tpp == outState.insuranceData[1].thirdPartyPayment
           IN  /\ tpp.coveragePercentage = 75 <=> inState.roomType = Some("single")
               /\ inState.roomType # Some("single") => tpp.coveragePercentage = 100
               /\ tpp.coveragePercentage = 100 => tpp.estimatedCoPay = "€0"

C10_Witness ==
    /\ called /\ ~goesBack /\ inStep = "review"
    /\ inState.roomType = Some("day")
    /\ outState.insuranceData[1].thirdPartyPayment.coveragePercentage = 100
    /\ outState.insuranceData[1].thirdPartyPayment.estimatedCoPay = "€0"

\* C16 (as claimed): a call whose language value is none of en, nl, fr is
\* not rejected; it is answered in English, exactly as the same call with
\* the language omitted.
C16_UnsupportedLanguageFallsBack ==
    (IsSome(req.language) /\ req.language[1] \notin Languages) =>
        /\ rejected = None
        /\ called
        /\ resp = hospital_journey([req EXCEPT !.language = None],
                                   clock, drawn)

\* C16 (amended): a call whose language value is none of en, nl, fr fails
\* schema validation and returns no result; only a call that omits the
\* language is answered in English.
C16_UnsupportedLanguageRejected ==
    /\ (IsSome(req.language) /\ req.language[1] \notin Languages) =>
        /\ rejected # None
        /\ ~called
        /\ resp = NoResponse
    /\ (called /\ req.language = None) =>
        /\ rejected = None
        /\ resp.structuredContent.language = "en"
        /\ resp.content[1].text \in
               { SERVER_MESSAGES.en[s] : s \in Steps }

C16_Witness ==
    /\ IsSome(req.language)
    /\ req.language[1] \notin Languages
    /\ rejected # None

\* C11: priorAuthRequired of the generated insurance data is true exactly
\* when the admission reason contains, in any letter case, one of the words
\* surgery, operation, childbirth; an absent or empty reason gives false.
C11_PriorAuthIffKeyword ==
    IsSome(genData) =>
        LET reason == IF IsSome(genState.reason) THEN genState.reason[1]
                      ELSE <<>>
            Mentions(kw) ==
                \E i \in 1..Len(reason) :
                    /\ i + Len(kw) - 1 <= Len(reason)
                    /\ \A j \in 1..Len(kw) :
                           LowerOf(reason[i + j - 1]) = kw[j]
        IN  genData[1].thirdPartyPayment.priorAuthRequired
            = (\/ Mentions(KwSurgery)
               \/ Mentions(KwOperation)
               \/ Mentions(KwChildbirth))

C11_Witness ==
    /\ IsSome(genData)
    /\ genState.reason = Some(ReasonSurgery)
    /\ genData[1].thirdPartyPayment.priorAuthRequired

\* C12: generateMemberNumber returns NN.NN.NN-NNN.NN: two digits for the
\* year (60-99), two for the month (01-12), two for the day (01-28), three
\* for the sequence (001-999) and two for the check number (00-98).
C12_MemberNumberFormat ==
    IsSome(genData) =>
        LET m == genData[1].memberNumber
            Value(c) == CHOOSE d \in 0..9 : Digit(d) = c
            IsDigit(c) == \E d \in 0..9 : Digit(d) = c
            Two(i) == 10 * Value(m[i]) + Value(m[i + 1])
        IN  /\ Len(m) = 15
            /\ \A i \in {1, 2, 4, 5, 7, 8, 10, 11, 12, 14, 15} : IsDigit(m[i])
            /\ m[3] = "." /\ m[6] = "." /\ m[9] = "-" /\ m[13] = "."
            /\ Two(1) \in 60..99
            /\ Two(4) \in 1..12
            /\ Two(7) \in 1..28
            /\ 100 * Value(m[10]) + Two(11) \in 1..999
            /\ Two(14) \in 0..98

C12_Witness ==
    /\ IsSome(genData)
    /\ genDraw = <<0, 0, 0, 0, 0>>
    /\ Len(genData[1].memberNumber) = 15

\* C13: a forward call at select_hospital returns admission_details; when
\* hospitalId equals the id of a catalog entry, hospitalName and hospitalCity
\* are returned as that entry's name and city; when hospitalId is absent,
\* "other" or matches no entry, hospitalName, hospitalCity and abroad are
\* returned as they were sent.
C13_SelectHospitalLookup ==
    (called /\ ~goesBack /\ inStep = "select_hospital") =>
        LET id == inState.hospitalId
            entries == { i \in 1..Len(BELGIAN_HOSPITALS) :
                           id = Some(BELGIAN_HOSPITALS[i].id) }
        IN  /\ outStep = "admission_details"
            /\ \A i \in entries :
                   /\ outState.hospitalName = Some(BELGIAN_HOSPITALS[i].name)
                   /\ outState.hospitalCity = Some(BELGIAN_HOSPITALS[i].city)
            /\ entries = {} =>
                   /\ outState.hospitalName = inState.hospitalName
                   /\ outState.hospitalCity = inState.hospitalCity
                   /\ outState.abroad = inState.abroad

C13_Witness ==
    /\ called /\ ~goesBack /\ inStep = "select_hospital"
    /\ inState.hospitalId = Some("uz-gent")
    /\ inState.hospitalName = Some("typed name")
    /\ outState.hospitalName # inState.hospitalName

\* C14: every forward call at review returns step submitted, with
\* insuranceData set and declarationId equal to "HSP-" followed by exactly
\* six digits that read as a number from 100000 to 999999.
C14_ReviewSubmits ==
    (called /\ ~goesBack /\ inStep = "review") =>
        /\ outStep = "submitted"
        /\ IsSome(outState.insuranceData)
        /\ IsSome(outState.declarationId)
        /\ LET id == outState.declarationId[1]
           IN  /\ Len(id) = 10
               /\ SubSeq(id, 1, 4) = <<"H", "S", "P", "-">>
               /\ \A i \in 5..10 : \E d \in 0..9 : id[i] = Digit(d)
               /\ id[5] # "0"

C14_Witness ==
    /\ called /\ ~goesBack /\ inStep = "review"
    /\ drawn.id = 0
    /\ outState.declarationId = Some(<<"H","S","P","-","1","0","0","0","0","0">>)

\* C15: every call that passes the schema returns a result, without an
\* error: its step is one of the seven steps, its narrative text is not
\* empty and its hospitalList is the fixed catalog of 15 hospitals.
C15_EngineTotal ==
    ((called \/ rejected # None) /\ parseSucceeds(req)) =>
        /\ called
        /\ rejected = None
        /\ outStep \in Steps
        /\ Len(resp.content) = 1
        /\ resp.content[1].text # ""
        /\ resp.structuredContent.hospitalList = BELGIAN_HOSPITALS
        /\ Len(resp.structuredContent.hospitalList) = 15

C15_Witness ==
    /\ called
    /\ inStep = "submitted"
    /\ goesBack
    /\ req.state = None
    /\ outStep = "submitted"
    /\ Len(resp.structuredContent.hospitalList) = 15

\* C17: a call with goBack true returns every field the caller entered
\* (memberId, memberName, hospitalId, hospitalName, hospitalCity, abroad,
\* admissionDate, reason, accident, roomType, notes) as it was sent, at
\* every step and for every state.
C17_BackKeepsEnteredFields ==
    (called /\ goesBack) =>
        \A f \in { "memberId", "memberName", "hospitalId", "hospitalName",
                   "hospitalCity", "abroad", "admissionDate", "reason",
                   "accident", "roomType", "notes" } :
            outState[f] = inState[f]

C20_AcceptedOnlyIfSignatureMatches ==
    (IsSome(validation) /\ options.requireMagicNumberCheck) =>
        LET result == validation[1]
            detected ==
                getMimeTypeFromMagicNumber(base64ToBuffer(file.base64Content))
        IN  /\ result.valid => detected = file.mimeType
            /\ (detected # file.mimeType
                /\ detected # "application/octet-stream") =>
                   /\ ~result.valid
                   /\ (/\ file.sizeBytes <= options.maxSizeBytes
                       /\ contains(options.allowedMimeTypes, file.mimeType))
                      => includes(result.error[1], "MIME type mismatch")

\* C18: the Next buttons of select_member, select_hospital and
\* admission_details never send a hospital_journey call in which a required
\* field is missing, empty or only whitespace (memberName; hospitalName and
\* hospitalCity; admissionDate and reason); and a click that fails
\* validation shows its message and leaves the displayed step, and the
\* calls in flight, as they were.
C18_NextSendsOnlyValidatedForms ==
    [][ /\ \A i \in 1..Len(pending') :
            LET call == pending'[i]
                state == call.state[1]
                Filled(field) ==
                    /\ IsSome(state[field])
                    /\ \E k \in 1..Len(state[field][1]) :
                           SubSeq(state[field][1], k, k) \notin { " ", "\t" }
                FilledText(field) ==
                    /\ IsSome(state[field])
                    /\ \E k \in 1..Len(state[field][1]) :
                           state[field][1][k] \notin { " ", "\t" }
            IN  call.goBack = Some(FALSE) =>
                  /\ call.step = Some("select_member") => Filled("memberName")
                  /\ call.step = Some("select_hospital") =>
                         Filled("hospitalName") /\ Filled("hospitalCity")
                  /\ call.step = Some("admission_details") =>
                         FilledText("admissionDate") /\ FilledText("reason")
        /\ (IsSome(validationError') /\ validationError' # validationError) =>
               (shown' = shown /\ pending' = pending)
      ]_vars

C18_Witness ==
    /\ shownStep = "admission_details"
    /\ validationError = Some("Please enter the reason for admission")
    /\ Len(pending) = 1
    /\ pending[1].step = Some("admission_details")
    /\ pending[1].goBack = Some(FALSE)

\* C21: validateUploadedFile called with FILE_UPLOAD_PRESETS.PERMISSIVE
\* accepts a file of any MIME type whose sizeBytes is at most 50 MB.
C21_PermissiveAcceptsAnyType ==
    (/\ IsSome(validation)
     /\ options = FILE_UPLOAD_PRESETS.PERMISSIVE
     /\ file.sizeBytes <= 50 * 1024 * 1024) =>
        validation[1].valid

\* C22: for every input string, sanitizeFilename returns a string of
\* length at most 255.
C22_SanitizedLengthAtMost255 ==
    IsSome(sanitized) => Len(sanitized[1]) <= 255

\* C23: for every input string, the result of sanitizeFilename contains no
\* "..", no "/", no "\" and no NUL character, so that it passes the path
\* traversal and null byte checks of isValidFilename.
C23_SanitizedHasNoTraversal ==
    IsSome(sanitized) =>
        LET name == sanitized[1]
        IN  /\ \A i \in 1..Len(name) : name[i] \notin { "/", "\\", NUL }
            /\ \A i \in 1..(Len(name) - 1) :
                   ~(name[i] = "." /\ name[i + 1] = ".")


\* C24: the language of the journey is kept across the flow the widget
\* drives: once the widget shows a result in nl or fr, whatever it shows
\* next carries the same language.
C24_LanguageKeptAcrossFlow ==
    [][(/\ IsSome(shown)
        /\ shown[1].language \in { "nl", "fr" }
        /\ IsSome(shown'))
       => shown'[1].language = shown[1].language]_vars


C26_ForwardTouchesOwnedFieldsOnly ==
    (called /\ ~goesBack) =>
        LET changed == { f \in StateFields : outState[f] # inState[f] }
            owned ==
                CASE inStep = "select_hospital" ->
                         { "hospitalName", "hospitalCity", "abroad" }
                  [] inStep = "admission_details" ->
                         { "defaultAdmissionDate", "minAdmissionDate",
                           "maxAdmissionDate" }
                  [] inStep = "review" -> { "declarationId", "insuranceData" }
                  [] OTHER -> {}
        IN  changed \subseteq owned

C26_Witness ==
    /\ called /\ ~goesBack /\ inStep = "review"
    /\ IsSome(inState.declarationId)
    /\ outState.declarationId # inState.declarationId
    /\ outState.insuranceData # inState.insuranceData
    /\ \A f \in StateFields \ { "declarationId", "insuranceData" } :
           outState[f] = inState[f]

\* C27: in a run of forward calls that starts at start, each call passing
\* on the step and state returned by the one before, the n-th call returns
\* the n-th step after start for n up to six, so submitted is returned by
\* the sixth call and by none before it; every later call returns submitted
\* again and the state as it was passed.
C27_SubmittedAfterSixThenAbsorbing ==
    (forwardFrom = "start" /\ forwardRun > 0) =>
        /\ forwardRun <= 6 => outStep = StepAt(forwardRun)
        /\ forwardRun < 6 => outStep # "submitted"
        /\ forwardRun > 6 => /\ inStep = "submitted"
                             /\ outStep = "submitted"
                             /\ outState = inState

C27_Witness ==
    /\ forwardFrom = "start" /\ forwardRun = 7
    /\ inStep = "submitted" /\ outStep = "submitted"
    /\ IsSome(outState.declarationId)
    /\ outState = inState


\* C28: process_file answers success=true only for a file that
\* validateUploadedFile accepts under the handler's options, and then the
\* validation is the first call it made; a rejected file is answered with
\* success=false and the validation error, with no checksum, detected type
\* or analysis computed; whatever is thrown during validation or processing
\* comes back as a success=false result with its message.
C28_SuccessOnlyAfterValidation ==
    IsSome(procResult) =>
        LET args == procArgs[1]
            out == procResult[1].response.structuredContent
            calls == procResult[1].calls
            verdict ==
                validateUploadedFile(
                    [ filename |-> args.filename, mimeType |-> args.mimeType,
                      base64Content |-> args.base64Content,
                      sizeBytes |-> approximateSize(args.base64Content) ],
                    ProcessOptions)
            thrown ==
                /\ IsSome(procFault)
                /\ \E i \in 1..Len(calls) : calls[i] = procFault[1].call
        IN  /\ calls[1] = "validateUploadedFile"
            /\ out.success \in BOOLEAN
            /\ out.success => verdict.valid /\ ~thrown
            /\ (~verdict.valid /\ ~thrown) =>
                   /\ ~out.success
                   /\ out.error = verdict.error[1]
                   /\ calls = << "validateUploadedFile" >>
                   /\ "result" \notin DOMAIN out
            /\ thrown =>
                   /\ ~out.success
                   /\ out.error = errorMessage(procFault[1].thrown)

C28_Witness ==
    /\ IsSome(procResult)
    /\ procFault = None
    /\ procArgs[1].mimeType = "text/plain"
    /\ procArgs[1].base64Content = PngContent
    /\ ~procResult[1].response.structuredContent.success
    /\ procResult[1].calls = << "validateUploadedFile" >>


\* C29: once the dashboard has initialised, isPaused holds exactly when
\* refreshInterval is null; while not paused exactly one interval timer is
\* active, the one refreshInterval names, and while paused none is; and no
\* step starts a get_system_metrics call and leaves the widget paused.
C29_OneTimerUnlessPaused ==
    /\ [](/\ isPaused <=> refreshInterval = None
          /\ Cardinality(timers) = IF isPaused THEN 0 ELSE 1
          /\ ~isPaused => \A t \in timers : Some(t.id) = refreshInterval)
    /\ [][fetching' > fetching => ~isPaused']_vars

C29_Witness ==
    /\ isPaused
    /\ refreshInterval = None
    /\ timers = {}
    /\ fetching = 2
    /\ IsSome(metricsShown)


\* C30: the file processor widget has at most one process_file call of its
\* own in flight, and the Process button is disabled for as long as such a
\* call has not settled.
C30_OneProcessCallInFlight ==
    /\ Len(processing) <= 1
    /\ Len(processing) > 0 => processBtnDisabled

====
